---- MODULE Spec2Model ----
(***************************************************************************)
(* Gateway Supervisor of openclaw-dashboard: the Process Supervisor        *)
(* (GatewayProcessManager), the Webhook Reconciler (WebhookPollerService), *)
(* the Metrics Collector (MetricsCollectorService) and the Mode            *)
(* Coordinator (gatewayManager.setConnectionMode).                         *)
(*                                                                         *)
(* The host is a single-threaded event loop: every asynchronous call is a  *)
(* task whose code runs atomically between two awaited I/O operations.     *)
(* One action of this model is one such piece: the continuation of an      *)
(* awaited operation together with the effect of the next one.             *)
(***************************************************************************)
EXTENDS Integers, Sequences, FiniteSets, TLC

\* ---------------------------------------------------------------- bounds
\* Operations (API calls, timer ticks) invoked in one behaviour; each spawns
\* at most one process, so pids stay below MaxOps + 2.
MaxOps == 2
\* Spontaneous deaths of a supervised process in one behaviour.
MaxCrashes == 1

\* Calls of start() and stop() of a timer-driven component in one behaviour.
MaxCalls == 3

\* The tasks of the event loop: two requests of the dashboard API in flight,
\* two callbacks of the reconciler's timers, two calls of its start(), one
\* collect() of the collector.
ApiTasks == {"apiA", "apiB"}
TickTasks == {"tickA", "tickB"}
BootTasks == {"bootA", "bootB"}
CollectTasks == {"collA"}
Tasks == ApiTasks \cup TickTasks \cup BootTasks \cup CollectTasks

VARIABLES
    alive,        \* pids of the live gateway processes
    termed,       \* live pids that were sent SIGTERM
    listener,     \* pid of the process listening on DEFAULT_PORT, 0 if none
    pidFile,      \* content of PID_FILE, 0 if the file does not exist
    nextPid,      \* pid of the next spawned process
    crashes,      \* spontaneous deaths so far
    killDenied,   \* process.kill on a live pid raises EPERM
    apiDown,      \* requests to the provider API fail
    db,           \* "up", "none" (getDb() is null) or "error" (queries throw)
    faults,       \* the kinds of failure the environment of this run can produce
    hookUrl,      \* provider side: the subscribed url, "" if none
    hookErr,      \* provider side: last_error_date is set
    hookPending,  \* provider side: pending_update_count
    settings,     \* gateway_settings: key -> value, Absent if no row
    botToken,     \* a Telegram channel config with a bot token exists
    restartLogs,  \* gateway_restart_logs rows, oldest first
    webhookLogs,  \* webhook_status_logs rows, oldest first
    monitors,     \* gateway_monitors rows, oldest first
    pollerRunning,   \* WebhookPollerService.isRunning
    pollerInterval,  \* WebhookPollerService.intervalId, 0 for null
    pollerTimers,    \* handles of its setInterval timers not yet cleared
    metricsRunning,  \* MetricsCollectorService.isRunning
    metricsInterval, \* MetricsCollectorService.intervalId, 0 for null
    metricsTimers,   \* handles of its setInterval timers not yet cleared
    nextHandle,   \* the next timer handle
    ops,          \* operations invoked so far
    calls,        \* start() and stop() calls of the components so far
    hist,         \* what has happened, for the properties (not program state)
    pc,           \* per task: the awaited operation it is at
    stack,        \* per task: the continuations of its callers
    lv            \* per task: its local variables

procVars == <<alive, termed, listener>>
envVars == <<crashes, killDenied, apiDown, db, faults>>
hookVars == <<hookUrl, hookErr, hookPending>>
storeVars == <<settings, botToken>>
logVars == <<restartLogs, webhookLogs, monitors>>
pollerVars == <<pollerRunning, pollerInterval, pollerTimers>>
metricsVars == <<metricsRunning, metricsInterval, metricsTimers>>
compVars == <<pollerVars, metricsVars, nextHandle, calls>>
taskVars == <<pc, stack, lv>>

vars == <<procVars, pidFile, nextPid, envVars, hookVars, storeVars, logVars,
          compVars, ops, hist, taskVars>>

\* What no step of the Process Supervisor touches.
supFrame0 == <<envVars, hookVars, storeVars, logVars, compVars, ops>>
supFrame == <<supFrame0, hist>>

\* op: the number of the operation the task runs (0 when idle).
\* active, recent: the cycle's isActive and recentAttempts.
\* target, previous, failed: the mode setConnectionMode was given, the mode it
\* found, and whether one of its legs failed; alone: no other operation and no failure of the environment
\* met this one.
\* pre, live: for an operation that is watched, the pid file and the live
\* processes when it was called; solo: no other operation ran, and nothing
\* else touched the pid file, since.
NoLocals == [op |-> 0, cur |-> 0, pid |-> 0, child |-> 0, oldPid |-> 0,
             newPid |-> 0, rpid |-> 0, ok |-> FALSE, active |-> FALSE,
             recent |-> 0, target |-> "", failed |-> FALSE, alone |-> FALSE,
             pre |-> 0, live |-> {}, solo |-> FALSE, previous |-> "",
             reset |-> "uncalled", url |-> "", info |-> "none"]

Max(S) == CHOOSE x \in S : \A y \in S : y <= x

\* The outcomes of an operation that can fail in the way `kind`: TRUE is the
\* good one.
Outcomes(kind) == IF kind \in faults THEN {TRUE, FALSE} ELSE {TRUE}

\* ------------------------------------------------------------ task plumbing
\* Task t goes on at `entry`; `conts` are the continuations to return to.
Goto(t, entry) == pc' = [pc EXCEPT ![t] = entry]

Call(t, entry, conts) ==
    /\ pc' = [pc EXCEPT ![t] = entry]
    /\ stack' = [stack EXCEPT ![t] = conts \o @]

Return(t) ==
    /\ pc' = [pc EXCEPT ![t] = Head(stack[t])]
    /\ stack' = [stack EXCEPT ![t] = Tail(@)]

Finish(t) ==
    /\ pc' = [pc EXCEPT ![t] = "idle"]
    /\ stack' = [stack EXCEPT ![t] = <<>>]
    /\ lv' = [lv EXCEPT ![t] = NoLocals]

\* ------------------------------------------------------ the process itself
Dies(p) ==
    /\ alive' = alive \ {p}
    /\ termed' = termed \ {p}
    /\ listener' = IF listener = p THEN 0 ELSE listener

\* The gateway opens its port once it has booted; the port has one owner.
Bind(p) ==
    /\ p \in alive /\ listener = 0
    /\ listener' = p
    /\ UNCHANGED <<alive, termed, pidFile, nextPid, envVars, hookVars,
                   storeVars, logVars, compVars, ops, hist, taskVars>>

\* A process that was sent SIGTERM exits.
Exit(p) ==
    /\ p \in termed
    /\ Dies(p)
    /\ UNCHANGED <<pidFile, nextPid, envVars, hookVars, storeVars, logVars,
                   compVars, ops, hist, taskVars>>

\* A process exits on its own (port taken, crash).
Crash(p) ==
    /\ p \in alive /\ crashes < MaxCrashes
    /\ Dies(p)
    /\ crashes' = crashes + 1
    /\ UNCHANGED <<pidFile, nextPid, killDenied, apiDown, db, faults, hookVars,
                   storeVars, logVars, compVars, ops, hist, taskVars>>

\* Every operation in progress has met a failure or another operation.
Disturbed == [t \in Tasks |-> [lv[t] EXCEPT !.alone = FALSE]]

\* Every operation in progress has met another operation, or a change of the
\* pid file that is not its own.
Overlapped == [t \in Tasks |-> [lv[t] EXCEPT !.alone = FALSE, !.solo = FALSE]]

\* The database stops answering: from now on its queries throw.
DbFails ==
    /\ "db" \in faults
    /\ db = "up"
    /\ db' = "error"
    /\ hist' = [hist EXCEPT !.dbFailed = TRUE]
    /\ lv' = Disturbed
    /\ UNCHANGED <<procVars, pidFile, nextPid, crashes, killDenied, apiDown,
                   faults, hookVars, storeVars, logVars, compVars, ops, pc, stack>>

\* process.kill starts, or stops, raising EPERM.
KillDenial ==
    /\ "kill" \in faults
    /\ killDenied' = ~killDenied
    /\ lv' = Disturbed
    /\ UNCHANGED <<procVars, pidFile, nextPid, crashes, apiDown, db, faults,
                   hookVars, storeVars, logVars, compVars, ops, hist, pc, stack>>

\* PID_FILE is removed from /tmp by something else than the supervisor.
PidFileLost ==
    /\ "pidfile" \in faults
    /\ pidFile # 0
    /\ pidFile' = 0
    /\ lv' = Overlapped
    /\ UNCHANGED <<procVars, nextPid, envVars, hookVars, storeVars, logVars,
                   compVars, ops, hist, pc, stack>>

\* The provider API goes out of reach, or comes back.
ApiOutage ==
    /\ "api" \in faults
    /\ apiDown' = ~apiDown
    /\ lv' = Disturbed
    /\ UNCHANGED <<procVars, pidFile, nextPid, crashes, killDenied, db, faults,
                   hookVars, storeVars, logVars, compVars, ops, hist, pc, stack>>

\* --------------------------------------------- GatewayProcessManager helpers
\* isProcessRunning: process.kill(pid, 0) must not throw; it throws ESRCH for
\* a pid that is gone and EPERM for a process the caller may not signal.
IsProcessRunning(pid) == pid \in alive /\ ~killDenied

\* getCurrentPid, the readFile: the pid of PID_FILE, else on to pgrep.
GcpRead(t) ==
    /\ pc[t] = "gcp_read"
    /\ IF pidFile # 0
       THEN /\ lv' = [lv EXCEPT ![t].cur = pidFile]
            /\ Return(t)
       ELSE /\ Goto(t, "gcp_pgrep")
            /\ UNCHANGED <<stack, lv>>
    /\ UNCHANGED <<procVars, pidFile, nextPid, supFrame>>

\* getCurrentPid, the pgrep fallback: the last pid listed, which is then saved.
GcpPgrep(t) ==
    /\ pc[t] = "gcp_pgrep"
    /\ IF alive # {}
       THEN /\ lv' = [lv EXCEPT ![t].cur = Max(alive)]
            /\ Goto(t, "gcp_save")
            /\ UNCHANGED stack
       ELSE /\ lv' = [lv EXCEPT ![t].cur = 0]
            /\ Return(t)
    /\ UNCHANGED <<procVars, pidFile, nextPid, supFrame>>

\* getCurrentPid, savePid of the pid pgrep found.
GcpSave(t) ==
    /\ pc[t] = "gcp_save"
    /\ pidFile' = lv[t].cur
    /\ Return(t)
    /\ UNCHANGED <<procVars, nextPid, supFrame, lv>>

\* ------------------------------------------------ GatewayProcessManager.stop
\* getStatus() begins with getCurrentPid.
CallStatus(t, conts) == Call(t, "gcp_read", <<"status_check">> \o conts)

\* stop() begins with getCurrentPid; `conts` is where its caller goes on.
CallStop(t, conts) == Call(t, "gcp_read", <<"stop_kill">> \o conts)

\* stop, after getCurrentPid: no pid is success; else SIGTERM. ESRCH clears the
\* pid file, any other error (EPERM) makes stop fail.
StopKill(t) ==
    /\ pc[t] = "stop_kill"
    /\ LET pid == lv[t].cur IN
       IF pid = 0
       THEN /\ lv' = [lv EXCEPT ![t].ok = TRUE]
            /\ Return(t)
            /\ UNCHANGED termed
       ELSE IF pid \notin alive
       THEN /\ lv' = [lv EXCEPT ![t].cur = 0]
            /\ Goto(t, "stop_clear")
            /\ UNCHANGED <<stack, termed>>
       ELSE IF killDenied
       THEN /\ lv' = [lv EXCEPT ![t].ok = FALSE, ![t].cur = 0]
            /\ Return(t)
            /\ UNCHANGED termed
       ELSE /\ termed' = termed \cup {pid}
            /\ lv' = [lv EXCEPT ![t].pid = pid, ![t].cur = 0]
            /\ Goto(t, "stop_wait")
            /\ UNCHANGED stack
    /\ UNCHANGED <<alive, listener, pidFile, nextPid, supFrame>>

\* waitForShutdown saw the process gone.
StopGone(t) ==
    /\ pc[t] = "stop_wait"
    /\ ~IsProcessRunning(lv[t].pid)
    /\ lv' = [lv EXCEPT ![t].pid = 0]
    /\ Goto(t, "stop_clear")
    /\ UNCHANGED <<procVars, pidFile, nextPid, supFrame, stack>>

\* SHUTDOWN_TIMEOUT passed with the process alive: SIGKILL, which EPERM fails.
StopForce(t) ==
    /\ pc[t] = "stop_wait"
    /\ lv[t].pid \in alive
    /\ IF killDenied
       THEN /\ lv' = [lv EXCEPT ![t].ok = FALSE, ![t].pid = 0]
            /\ Return(t)
            /\ UNCHANGED procVars
       ELSE /\ Dies(lv[t].pid)
            /\ lv' = [lv EXCEPT ![t].pid = 0]
            /\ Goto(t, "stop_clear")
            /\ UNCHANGED stack
    /\ UNCHANGED <<pidFile, nextPid, supFrame>>

\* A stop that succeeds without clearing the pid file.
StopClearKept(t) ==
    /\ pc[t] = "stop_clear"
    /\ lv' = [lv EXCEPT ![t].ok = TRUE]
    /\ Return(t)
    /\ UNCHANGED <<procVars, pidFile, nextPid, supFrame>>

\* clearPidFile unlinks the file, whatever it holds by now; stop succeeded.
StopClear(t) ==
    /\ pc[t] = "stop_clear"
    /\ pidFile' = 0
    /\ lv' = [lv EXCEPT ![t].ok = TRUE]
    /\ Return(t)
    /\ UNCHANGED <<procVars, nextPid, supFrame>>

\* ----------------------------------------------- GatewayProcessManager.start
CallStart(t, conts) == Call(t, "gcp_read", <<"start_check">> \o conts)

\* start, after getCurrentPid: a live recorded pid means already running.
StartCheck(t) ==
    /\ pc[t] = "start_check"
    /\ IF lv[t].cur # 0 /\ IsProcessRunning(lv[t].cur)
       THEN /\ lv' = [lv EXCEPT ![t].ok = FALSE, ![t].rpid = lv[t].cur,
                                 ![t].cur = 0]
            /\ Return(t)
       ELSE /\ lv' = [lv EXCEPT ![t].cur = 0]
            /\ Goto(t, "start_spawn")
            /\ UNCHANGED stack
    /\ UNCHANGED <<procVars, pidFile, nextPid, supFrame>>

\* spawn after the mkdir: a child with a pid, or none (the binary is missing).
StartSpawn(t) ==
    /\ pc[t] = "start_spawn"
    /\ \E spawned \in Outcomes("spawn") :
         IF spawned
         THEN /\ alive' = alive \cup {nextPid}
              /\ nextPid' = nextPid + 1
              /\ lv' = [lv EXCEPT ![t].child = nextPid]
              /\ Goto(t, "start_save")
              /\ UNCHANGED stack
         ELSE /\ lv' = [lv EXCEPT ![t].ok = FALSE, ![t].rpid = 0]
              /\ Return(t)
              /\ UNCHANGED <<alive, nextPid>>
    /\ UNCHANGED <<termed, listener, pidFile, supFrame>>

\* savePid(child.pid), then the log file is opened; a failing open lands in
\* the catch of start.
StartSave(t) ==
    /\ pc[t] = "start_save"
    /\ pidFile' = lv[t].child
    /\ \E opened \in Outcomes("open") :
         IF opened
         THEN /\ Goto(t, "start_probe")
              /\ UNCHANGED <<stack, lv>>
         ELSE /\ lv' = [lv EXCEPT ![t].ok = FALSE, ![t].rpid = 0, ![t].child = 0]
              /\ Return(t)
    /\ UNCHANGED <<procVars, nextPid, supFrame>>

\* waitForStartup, isProcessRunning: an early exit ends the wait; a start that
\* did not come up is stopped.
StartProbe(t) ==
    /\ pc[t] = "start_probe"
    /\ IF ~IsProcessRunning(lv[t].child)
       THEN CallStop(t, <<"start_failed">>)
       ELSE Goto(t, "start_port") /\ UNCHANGED stack
    /\ UNCHANGED <<procVars, pidFile, nextPid, supFrame, lv>>

\* waitForStartup, isPortListening: any listener on the port counts; with none
\* the loop goes on until STARTUP_TIMEOUT.
StartPort(t) ==
    /\ pc[t] = "start_port"
    /\ IF listener # 0
       THEN /\ lv' = [lv EXCEPT ![t].ok = TRUE, ![t].rpid = lv[t].child,
                                 ![t].child = 0]
            /\ Return(t)
       ELSE /\ \E intime \in Outcomes("timeout") :
                 IF ~intime
                 THEN CallStop(t, <<"start_failed">>)
                 ELSE Goto(t, "start_probe") /\ UNCHANGED stack
            /\ UNCHANGED lv
    /\ UNCHANGED <<procVars, pidFile, nextPid, supFrame>>

\* start reports the failed startup once its stop() has returned.
StartFailed(t) ==
    /\ pc[t] = "start_failed"
    /\ lv' = [lv EXCEPT ![t].ok = FALSE, ![t].rpid = 0, ![t].child = 0]
    /\ Return(t)
    /\ UNCHANGED <<procVars, pidFile, nextPid, supFrame>>

\* --------------------------------------------- GatewayProcessManager.restart
CallRestart(t, conts) == Call(t, "gcp_read", <<"restart_old">> \o conts)

\* restart: oldPid is read, then stop() is called.
RestartOld(t) ==
    /\ pc[t] = "restart_old"
    /\ lv' = [lv EXCEPT ![t].oldPid = lv[t].cur, ![t].cur = 0]
    /\ CallStop(t, <<"restart_stopped">>)
    /\ UNCHANGED <<procVars, pidFile, nextPid, supFrame>>

\* What healthCheck tests: the recorded pid is alive and the port has a listener.
Healthy == pidFile # 0 /\ pidFile \in alive /\ listener # 0

\* The message of the RestartResult: it names the phase restart ended in.
RestartMessage(t, success) ==
    IF pc[t] = "restart_stopped" THEN "Failed to stop old process"
    ELSE IF pc[t] = "restart_started" THEN "Failed to start new process"
    ELSE IF success THEN "Gateway restarted successfully"
    ELSE "New process started but health check failed"

\* restart returns {success, oldPid, newPid, message}; hist keeps the result,
\* whether a healthy process existed at that moment and whether the port had a
\* listener.
RestartReturns(t, success, newPid) ==
    /\ lv' = [lv EXCEPT ![t].ok = success, ![t].newPid = newPid,
                         ![t].rpid = 0, ![t].cur = 0]
    /\ hist' = [hist EXCEPT !.restarts = Append(@,
                   [op |-> lv[t].op, success |-> success, oldPid |-> lv[t].oldPid,
                    newPid |-> newPid, healthy |-> Healthy,
                    listening |-> listener # 0,
                    message |-> RestartMessage(t, success)])]
    /\ Return(t)

\* A restart that starts whatever stop() returned.
RestartStoppedAnyway(t) ==
    /\ pc[t] = "restart_stopped"
    /\ CallStart(t, <<"restart_started">>)
    /\ UNCHANGED <<lv, hist>>
    /\ UNCHANGED <<procVars, pidFile, nextPid, supFrame0>>

\* restart, after stop(): a failed stop ends it; else, 2 s later, start().
RestartStopped(t) ==
    /\ pc[t] = "restart_stopped"
    /\ IF ~lv[t].ok
       THEN RestartReturns(t, FALSE, 0)
       ELSE /\ CallStart(t, <<"restart_started">>)
            /\ UNCHANGED <<lv, hist>>
    /\ UNCHANGED <<procVars, pidFile, nextPid, supFrame0>>

\* restart, after start(): a failed start ends it; else, 3 s later, healthCheck.
RestartStarted(t) ==
    /\ pc[t] = "restart_started"
    /\ IF ~lv[t].ok
       THEN RestartReturns(t, FALSE, 0)
       ELSE /\ Call(t, "gcp_read", <<"health_alive">>)
            /\ UNCHANGED <<lv, hist>>
    /\ UNCHANGED <<procVars, pidFile, nextPid, supFrame0>>

\* healthCheck, after getCurrentPid: the recorded pid must be alive.
HealthAlive(t) ==
    /\ pc[t] = "health_alive"
    /\ IF lv[t].cur = 0 \/ ~IsProcessRunning(lv[t].cur)
       THEN RestartReturns(t, FALSE, lv[t].rpid)
       ELSE /\ Goto(t, "health_port")
            /\ UNCHANGED <<stack, lv, hist>>
    /\ UNCHANGED <<procVars, pidFile, nextPid, supFrame0>>

\* healthCheck, isPortListening; restart returns its result.
HealthPort(t) ==
    /\ pc[t] = "health_port"
    /\ RestartReturns(t, listener # 0, lv[t].rpid)
    /\ UNCHANGED <<procVars, pidFile, nextPid, supFrame0>>

\* Every step of the Process Supervisor.
SupStep(t) ==
    \/ GcpRead(t) \/ GcpPgrep(t) \/ GcpSave(t)
    \/ StopKill(t) \/ StopGone(t) \/ StopForce(t) \/ StopClear(t)
    \/ StartCheck(t) \/ StartSpawn(t) \/ StartSave(t) \/ StartProbe(t)
    \/ StartPort(t) \/ StartFailed(t)
    \/ RestartOld(t) \/ RestartStopped(t) \/ RestartStarted(t)
    \/ HealthAlive(t) \/ HealthPort(t)

\* ------------------------------------------------------------ History Sink
\* A row whose oldPid and newPid are exchanged.
RestartRowSwapped(t, trigger) ==
    [triggerType |-> trigger, success |-> lv[t].ok, oldPid |-> lv[t].newPid,
     newPid |-> lv[t].oldPid, recent |-> TRUE, op |-> lv[t].op]

\* insertGatewayRestartLog: the row is written when the database answers,
\* skipped without one; the call throws when the insert fails.
RestartRow(t, trigger) ==
    [triggerType |-> trigger, success |-> lv[t].ok, oldPid |-> lv[t].oldPid,
     newPid |-> lv[t].newPid, recent |-> TRUE, op |-> lv[t].op]

InsertGatewayRestartLog(row) ==
    restartLogs' = IF db = "up" THEN Append(restartLogs, row) ELSE restartLogs

\* insertWebhookStatusLog, likewise.
InsertWebhookStatusLog(row) ==
    webhookLogs' = IF db = "up" THEN Append(webhookLogs, row) ELSE webhookLogs

\* A count of the restarts of the reconciler only.
GetRecentAutoRestarts ==
    IF db = "up"
    THEN Cardinality({i \in DOMAIN restartLogs :
                         /\ restartLogs[i].recent
                         /\ restartLogs[i].triggerType = "webhook_check"})
    ELSE 0

\* A count that reads the limit when the database gives no answer.
GetRecentAttemptsClosed ==
    IF db = "up"
    THEN Cardinality({i \in DOMAIN restartLogs : restartLogs[i].recent})
    ELSE 3

\* getRecentRestartAttempts(5): the rows of the last 5 minutes, 0 without an
\* answer of the database.
GetRecentRestartAttempts ==
    IF db = "up"
    THEN Cardinality({i \in DOMAIN restartLogs : restartLogs[i].recent})
    ELSE 0

\* ----------------------------------------------------------- Settings Store
Absent == "absent"

\* getGatewaySetting(key, default): the row's value; with no row, or no answer
\* of the database, the default (Absent for none).
GetGatewaySetting(key, default) ==
    IF db = "up" /\ settings[key] # Absent THEN settings[key] ELSE default

\* ... and a default that was used for a missing row is written back.
Materialized(key, default) ==
    IF db = "up" /\ settings[key] = Absent /\ default # Absent
    THEN [settings EXCEPT ![key] = default]
    ELSE settings

\* setGatewaySetting(key, value) on the rows s: the row is updated, or
\* inserted.
SetGatewaySetting(s, key, value) == [s EXCEPT ![key] = value]

\* getGatewaySetting(key, default) on the rows s: a missing row is inserted
\* with the default.
GetOrInsert(s, key, default) ==
    IF s[key] = Absent THEN [s EXCEPT ![key] = default] ELSE s

\* The defaults of initializeGatewaySettings, in its order.
Defaults ==
    << [key |-> "webhook_check_interval", value |-> "300"],
       [key |-> "production_webhook_url", value |-> ""],
       [key |-> "auto_restart_enabled", value |-> "true"],
       [key |-> "max_restart_attempts", value |-> "3"],
       [key |-> "health_check_timeout", value |-> "10"],
       [key |-> "telegram_connection_mode", value |-> "webhook"] >>

\* The loop of initializeGatewaySettings from its i-th default on: for each
\* default getGatewaySetting(key, value), then setGatewaySetting(key, value).
RECURSIVE InitializedFrom(_, _)
InitializedFrom(s, i) ==
    IF i > Len(Defaults)
    THEN s
    ELSE InitializedFrom(
             SetGatewaySetting(GetOrInsert(s, Defaults[i].key, Defaults[i].value),
                               Defaults[i].key, Defaults[i].value),
             i + 1)

\* initializeGatewaySettings(): with a database that throws, the first
\* setGatewaySetting throws and nothing is written.
InitializeGatewaySettings ==
    /\ calls < MaxCalls
    /\ calls' = calls + 1
    /\ settings' = IF db = "up" THEN InitializedFrom(settings, 1) ELSE settings
    /\ UNCHANGED <<procVars, pidFile, nextPid, envVars, hookVars, botToken,
                   logVars, pollerVars, metricsVars, nextHandle, ops, hist,
                   taskVars>>

\* getTelegramBotToken: null without a database answer or a configured channel.
GetBotToken == db = "up" /\ botToken

\* Setting values are strings; parseInt(value, 10) of the decimal numerals.
Numerals == <<"1", "2", "3", "4", "5">>
ParseInt(s) == CHOOSE n \in 1..Len(Numerals) : Numerals[n] = s

\* ------------------------------------------- WebhookPollerService, the cycle
\* isActive of checkWebhookStatus.
\* An activity test that wants both: no error and nothing pending.
IsActiveStrict(url, lastErrorDate, pendingCount) ==
    url # "" /\ (~lastErrorDate /\ pendingCount = 0)

IsActive(url, lastErrorDate, pendingCount) ==
    url # "" /\ (~lastErrorDate \/ pendingCount = 0)

\* A row of the webhook log: webhookUrl is the url of the status, or null.
WebhookRow(t, action) ==
    [actionTaken |-> action, isActive |-> (action = "none" /\ lv[t].active),
     webhookUrl |-> IF lv[t].url = "" THEN "null" ELSE lv[t].url,
     op |-> lv[t].op]

cycFrame == <<procVars, pidFile, nextPid, envVars, compVars, ops>>

\* The catch of checkAndRestart, and of collect: an insert that throws is
\* logged to the console and the cycle is over. hist keeps the failed cycles.
Caught(t) ==
    hist' = IF db = "error"
            THEN [hist EXCEPT !.failed = @ \cup {lv[t].op}]
            ELSE hist

CallCycle(t, conts) == Call(t, "cycle_token", conts)

\* checkWebhookStatus returns {isActive, url, ...}; lv.info keeps where the
\* status came from: "no_token", "failed" (the request), "answered".
\* checkWebhookStatus, getBotToken: no token is reported as an inactive webhook
\* with a null url.
CycleToken(t) ==
    /\ pc[t] = "cycle_token"
    /\ IF GetBotToken
       THEN /\ Goto(t, "cycle_fetch")
            /\ lv' = [lv EXCEPT ![t].active = FALSE]
       ELSE /\ Goto(t, "cycle_log")
            /\ lv' = [lv EXCEPT ![t].active = FALSE, ![t].url = "",
                                 ![t].info = "no_token"]
    /\ UNCHANGED <<cycFrame, hookVars, storeVars, logVars, hist, stack>>

\* A checkWebhookStatus that takes a webhook it cannot query for active.
CycleFetchTrusting(t) ==
    /\ pc[t] = "cycle_fetch"
    /\ lv' = [lv EXCEPT
                 ![t].active = apiDown \/ IsActive(hookUrl, hookErr, hookPending),
                 ![t].url = IF apiDown THEN "" ELSE hookUrl,
                 ![t].info = IF apiDown THEN "failed" ELSE "answered"]
    /\ Goto(t, "cycle_log")
    /\ UNCHANGED <<cycFrame, hookVars, storeVars, logVars, hist, stack>>

\* checkWebhookStatus, getWebhookInfo: a failing request is reported as an
\* inactive webhook with a null url.
CycleFetch(t) ==
    /\ pc[t] = "cycle_fetch"
    /\ lv' = [lv EXCEPT
                 ![t].active = ~apiDown /\ IsActive(hookUrl, hookErr, hookPending),
                 ![t].url = IF apiDown THEN "" ELSE hookUrl,
                 ![t].info = IF apiDown THEN "failed" ELSE "answered"]
    /\ Goto(t, "cycle_log")
    /\ UNCHANGED <<cycFrame, hookVars, storeVars, logVars, hist, stack>>

\* A checkAndRestart whose catch clears the timer.
CycleLogStops(t) ==
    /\ pc[t] = "cycle_log"
    /\ InsertWebhookStatusLog(WebhookRow(t, "none"))
    /\ IF db = "error" \/ lv[t].active
       THEN Return(t)
       ELSE Goto(t, "cycle_auto") /\ UNCHANGED stack
    /\ Caught(t)
    /\ pollerTimers' = IF db = "error" THEN {} ELSE pollerTimers
    /\ UNCHANGED <<procVars, pidFile, nextPid, envVars, pollerRunning,
                   pollerInterval, metricsVars, nextHandle, calls, ops,
                   hookVars, storeVars, restartLogs, monitors, lv>>

\* The check is logged with actionTaken none; an active webhook ends the cycle.
\* An insert that throws ends it too (the catch of checkAndRestart).
CycleLog(t) ==
    /\ pc[t] = "cycle_log"
    /\ InsertWebhookStatusLog(WebhookRow(t, "none"))
    /\ IF db = "error" \/ lv[t].active
       THEN Return(t)
       ELSE Goto(t, "cycle_auto") /\ UNCHANGED stack
    /\ Caught(t)
    /\ UNCHANGED <<cycFrame, hookVars, storeVars, restartLogs, monitors, lv>>

\* auto_restart_enabled, 'true' by default: anything else ends the cycle.
CycleAuto(t) ==
    /\ pc[t] = "cycle_auto"
    /\ settings' = Materialized("auto_restart_enabled", "true")
    /\ IF GetGatewaySetting("auto_restart_enabled", "true") = "true"
       THEN Goto(t, "cycle_count") /\ UNCHANGED stack
       ELSE Return(t)
    /\ UNCHANGED <<cycFrame, hookVars, botToken, logVars, hist, lv>>

\* getRecentRestartAttempts(5).
CycleCount(t) ==
    /\ pc[t] = "cycle_count"
    /\ lv' = [lv EXCEPT ![t].recent = GetRecentRestartAttempts]
    /\ Goto(t, "cycle_max")
    /\ UNCHANGED <<cycFrame, hookVars, storeVars, logVars, hist, stack>>

\* max_restart_attempts, 3 by default: at the limit the owner is alerted, below
\* it restart('webhook_check') is called.
CycleMax(t) ==
    /\ pc[t] = "cycle_max"
    /\ settings' = Materialized("max_restart_attempts", "3")
    /\ IF lv[t].recent >= ParseInt(GetGatewaySetting("max_restart_attempts", "3"))
       THEN /\ Goto(t, "cycle_alert")
            /\ UNCHANGED <<stack, hist>>
       ELSE /\ CallRestart(t, <<"cycle_restarted">>)
            /\ hist' = [hist EXCEPT !.cycleRestarts = @ + 1]
    /\ lv' = [lv EXCEPT ![t].recent = 0]
    /\ UNCHANGED <<cycFrame, hookVars, botToken, logVars>>

\* notifyOwner(title, content): the notification is delivered (TRUE) or not;
\* a failure is ignored, the caller goes on either way.
NotifyOwner == Outcomes("notify")

\* A cycle that logs the alert only when the owner was notified.
CycleAlertIfNotified(t) ==
    /\ pc[t] = "cycle_alert"
    /\ \E delivered \in NotifyOwner :
         /\ IF delivered
            THEN InsertWebhookStatusLog(WebhookRow(t, "alert"))
            ELSE UNCHANGED webhookLogs
         /\ hist' = [hist EXCEPT
                        !.alerts = @ + 1,
                        !.lost = IF delivered THEN @ ELSE @ + 1,
                        !.failed = IF db = "error" THEN @ \cup {lv[t].op} ELSE @]
    /\ Return(t)
    /\ UNCHANGED <<cycFrame, hookVars, storeVars, restartLogs, monitors, lv>>

\* notifyOwner, then the alert is logged. hist counts the alerts, and those
\* whose notification was lost.
CycleAlert(t) ==
    /\ pc[t] = "cycle_alert"
    /\ \E delivered \in NotifyOwner :
         hist' = [hist EXCEPT
                     !.alerts = @ + 1,
                     !.lost = IF delivered THEN @ ELSE @ + 1,
                     !.failed = IF db = "error" THEN @ \cup {lv[t].op} ELSE @]
    /\ InsertWebhookStatusLog(WebhookRow(t, "alert"))
    /\ Return(t)
    /\ UNCHANGED <<cycFrame, hookVars, storeVars, restartLogs, monitors, lv>>

\* A cycle that resets the webhook after a failed restart too.
CycleRestartedAlways(t) ==
    /\ pc[t] = "cycle_restarted"
    /\ InsertGatewayRestartLog(RestartRow(t, "webhook_check"))
    /\ IF db = "error"
       THEN Return(t)
       ELSE Goto(t, "cycle_reset_url") /\ UNCHANGED stack
    /\ Caught(t)
    /\ UNCHANGED <<cycFrame, hookVars, storeVars, webhookLogs, monitors, lv>>

\* The restart attempt is logged; after a successful one the cycle waits 5 s
\* and resets the webhook. An insert that throws ends the cycle.
CycleRestarted(t) ==
    /\ pc[t] = "cycle_restarted"
    /\ InsertGatewayRestartLog(RestartRow(t, "webhook_check"))
    /\ IF db = "error" \/ ~lv[t].ok
       THEN Return(t)
       ELSE Goto(t, "cycle_reset_url") /\ UNCHANGED stack
    /\ Caught(t)
    /\ UNCHANGED <<cycFrame, hookVars, storeVars, webhookLogs, monitors, lv>>

\* resetWebhook returns nothing; lv.reset keeps what it did: "skipped" without
\* a url or a token, "failed" when the request failed, "applied".
\* resetWebhook, production_webhook_url: nothing is set without one.
CycleResetUrl(t) ==
    /\ pc[t] = "cycle_reset_url"
    /\ IF GetGatewaySetting("production_webhook_url", Absent) \in {Absent, ""}
       THEN /\ Goto(t, "cycle_restart_log")
            /\ lv' = [lv EXCEPT ![t].reset = "skipped"]
       ELSE /\ Goto(t, "cycle_reset_token")
            /\ UNCHANGED lv
    /\ UNCHANGED <<cycFrame, hookVars, storeVars, logVars, hist, stack>>

\* resetWebhook, getBotToken.
CycleResetToken(t) ==
    /\ pc[t] = "cycle_reset_token"
    /\ IF GetBotToken
       THEN /\ Goto(t, "cycle_reset_set")
            /\ UNCHANGED lv
       ELSE /\ Goto(t, "cycle_restart_log")
            /\ lv' = [lv EXCEPT ![t].reset = "skipped"]
    /\ UNCHANGED <<cycFrame, hookVars, storeVars, logVars, hist, stack>>

\* resetWebhook, setWebhook: the provider subscribes the production url.
CycleResetSet(t) ==
    /\ pc[t] = "cycle_reset_set"
    /\ hookUrl' = IF apiDown THEN hookUrl ELSE "prod"
    /\ lv' = [lv EXCEPT ![t].reset = IF apiDown THEN "failed" ELSE "applied"]
    /\ Goto(t, "cycle_restart_log")
    /\ UNCHANGED <<cycFrame, hookErr, hookPending, storeVars, logVars, hist,
                   stack>>

\* The restart is logged in the webhook log.
CycleRestartLog(t) ==
    /\ pc[t] = "cycle_restart_log"
    /\ InsertWebhookStatusLog(WebhookRow(t, "restart"))
    /\ Return(t)
    /\ Caught(t)
    /\ UNCHANGED <<cycFrame, hookVars, storeVars, restartLogs, monitors, lv>>

\* Every step of checkAndRestart outside the supervisor.
CycleStep(t) ==
    \/ CycleToken(t) \/ CycleFetch(t) \/ CycleLog(t) \/ CycleAuto(t)
    \/ CycleCount(t) \/ CycleMax(t) \/ CycleAlert(t) \/ CycleRestarted(t)
    \/ CycleResetUrl(t) \/ CycleResetToken(t) \/ CycleResetSet(t)
    \/ CycleRestartLog(t)

\* ------------------------------------------------- gatewayManager mutations
\* Tasks are interchangeable: a new operation runs as the first idle task of
\* its kind.
Free(t) ==
    /\ pc[t] = "idle"
    /\ t \in {"apiB", "tickB", "bootB"} =>
         pc[CHOOSE a \in {"apiA", "tickA", "bootA"} :
                (a = "apiA") = (t = "apiB") /\ (a = "tickA") = (t = "tickB")] # "idle"

\* A request arrives while fewer than `max` have: the next operation number is
\* taken.
BeginWithin(t, max) ==
    /\ Free(t)
    /\ ops < max
    /\ ops' = ops + 1
    /\ lv' = [Overlapped EXCEPT ![t] =
                 [NoLocals EXCEPT !.op = ops + 1,
                                  !.alone = /\ \A u \in Tasks : pc[u] = "idle"
                                            /\ ~killDenied /\ ~apiDown
                                            /\ db = "up"]]

Begin(t) == BeginWithin(t, MaxOps)

\* The same, for an operation that is watched: it remembers the pid file and
\* the live processes it was called with.
BeginSeen(t) ==
    /\ Free(t)
    /\ ops < MaxOps
    /\ ops' = ops + 1
    /\ lv' = [Overlapped EXCEPT ![t] =
                 [NoLocals EXCEPT !.op = ops + 1, !.pre = pidFile,
                                  !.live = alive,
                                  !.solo = \A u \in Tasks : pc[u] = "idle"]]

\* gatewayManager.restart: restart(reason), then the restart is logged.
ApiRestart(t) ==
    /\ Begin(t)
    /\ CallRestart(t, <<"api_restart_log">>)
    /\ UNCHANGED <<procVars, pidFile, nextPid, envVars, hookVars, storeVars,
                   logVars, compVars, hist>>

ApiRestartLog(t) ==
    /\ pc[t] = "api_restart_log"
    /\ InsertGatewayRestartLog(RestartRow(t, "manual"))
    /\ Finish(t)
    /\ UNCHANGED <<procVars, pidFile, nextPid, envVars, hookVars, storeVars,
                   webhookLogs, monitors, compVars, ops, hist>>

\* gatewayManager.start and gatewayManager.stop return the supervisor's result.
ApiStart(t) ==
    /\ Begin(t)
    /\ CallStart(t, <<"api_return">>)
    /\ UNCHANGED <<procVars, pidFile, nextPid, envVars, hookVars, storeVars,
                   logVars, compVars, hist>>

ApiStop(t) ==
    /\ BeginSeen(t)
    /\ CallStop(t, <<"api_stopped">>)
    /\ UNCHANGED <<procVars, pidFile, nextPid, envVars, hookVars, storeVars,
                   logVars, compVars, hist>>

ApiReturn(t) ==
    /\ pc[t] \in {"api_return", "api_stopped", "api_status"}
    /\ Finish(t)
    /\ UNCHANGED <<procVars, pidFile, nextPid, envVars, hookVars, storeVars,
                   logVars, compVars, ops, hist>>

\* gatewayManager.getStatus returns the supervisor's status (and the time of
\* the last restart, which it reads from the log).
ApiGetStatus(t) ==
    /\ BeginSeen(t)
    /\ CallStatus(t, <<"api_status">>)
    /\ UNCHANGED <<procVars, pidFile, nextPid, envVars, hookVars, storeVars,
                   logVars, compVars, hist>>

\* webhookManager.checkStatus: a cycle, then the latest log row is returned.
ApiCheckStatus(t) ==
    /\ Begin(t)
    /\ CallCycle(t, <<"api_return">>)
    /\ UNCHANGED <<procVars, pidFile, nextPid, envVars, hookVars, storeVars,
                   logVars, compVars, hist>>

\* ------------------------------------------ gatewayManager.setConnectionMode
Modes == {"gateway", "webhook"}

modeFrame == <<procVars, pidFile, nextPid, envVars, logVars, compVars, ops>>

\* What setConnectionMode returns: {success: true, message: 'Mode unchanged'},
\* or {success: true, message: 'Switched to <mode> mode', previousMode, newMode}.
ModeResult(previous, mode) ==
    IF previous = mode
    THEN [success |-> TRUE, message |-> <<"Mode unchanged">>]
    ELSE [success |-> TRUE, message |-> <<"Switched to", mode>>,
          previousMode |-> previous, newMode |-> mode]

\* setConnectionMode returns: hist keeps what it was asked, whether it changed
\* the mode, the process and the subscription it leaves, and its result.
ModeReturns(t, changed) ==
    /\ hist' = [hist EXCEPT !.modes = Append(@,
                   [op |-> lv[t].op, target |-> lv[t].target, changed |-> changed,
                    failed |-> lv[t].failed, alone |-> lv[t].alone,
                    running |-> alive # {}, url |-> hookUrl,
                    result |-> ModeResult(lv[t].previous, lv[t].target)])]
    /\ pc' = [pc EXCEPT ![t] = "idle"]
    /\ stack' = [stack EXCEPT ![t] = <<>>]

\* A setConnectionMode that switches without comparing the modes.
ApiSetModeAlways(t, mode) ==
    /\ Free(t)
    /\ ops < MaxOps
    /\ ops' = ops + 1
    /\ settings' = Materialized("telegram_connection_mode", "webhook")
    /\ lv' = [Overlapped EXCEPT ![t] =
                 [NoLocals EXCEPT !.op = ops + 1, !.target = mode,
                                  !.previous = GetGatewaySetting(
                                      "telegram_connection_mode", "webhook")]]
    /\ IF mode = "webhook"
       THEN CallStop(t, <<"mode_apply_url">>)
       ELSE Goto(t, "mode_delete_token") /\ UNCHANGED stack
    /\ UNCHANGED <<procVars, pidFile, nextPid, envVars, hookVars, botToken,
                   logVars, compVars, hist>>

\* setConnectionMode(mode): the persisted mode is read, 'webhook' by default;
\* an equal mode is left unchanged, else the switch begins with stop() for
\* 'webhook' and with deleteWebhook() for 'gateway'.
ApiSetMode(t, mode) ==
    /\ Free(t)
    /\ ops < MaxOps
    /\ ops' = ops + 1
    /\ settings' = Materialized("telegram_connection_mode", "webhook")
    /\ LET mine == [NoLocals EXCEPT !.op = ops + 1, !.target = mode,
                                    !.previous = GetGatewaySetting(
                                        "telegram_connection_mode", "webhook"),
                                    !.alone = /\ \A u \in Tasks : pc[u] = "idle"
                                              /\ ~killDenied /\ ~apiDown
                                              /\ db = "up"]
       IN  IF GetGatewaySetting("telegram_connection_mode", "webhook") = mode
           THEN /\ lv' = [Overlapped EXCEPT ![t] = NoLocals]
                /\ hist' = [hist EXCEPT !.modes = Append(@,
                              [op |-> mine.op, target |-> mode, changed |-> FALSE,
                               failed |-> FALSE, alone |-> mine.alone,
                               running |-> alive # {}, url |-> hookUrl,
                               result |-> ModeResult(mode, mode)])]
                /\ UNCHANGED <<pc, stack>>
           ELSE /\ lv' = [Overlapped EXCEPT ![t] = mine]
                /\ IF mode = "webhook"
                   THEN CallStop(t, <<"mode_apply_url">>)
                   ELSE Goto(t, "mode_delete_token") /\ UNCHANGED stack
                /\ UNCHANGED hist
    /\ UNCHANGED <<procVars, pidFile, nextPid, envVars, hookVars, botToken,
                   logVars, compVars>>

\* After stop(), whose result is not looked at: applyWebhook reads
\* production_webhook_url and gives up without one.
ModeApplyUrl(t) ==
    /\ pc[t] = "mode_apply_url"
    /\ IF GetGatewaySetting("production_webhook_url", Absent) \in {Absent, ""}
       THEN /\ Goto(t, "mode_save")
            /\ lv' = [lv EXCEPT ![t].failed = TRUE, ![t].ok = FALSE]
       ELSE /\ Goto(t, "mode_apply_token")
            /\ lv' = [lv EXCEPT ![t].failed = ~lv[t].ok, ![t].ok = FALSE]
    /\ UNCHANGED <<modeFrame, hookVars, storeVars, hist, stack>>

\* applyWebhook, getBotToken.
ModeApplyToken(t) ==
    /\ pc[t] = "mode_apply_token"
    /\ IF GetBotToken
       THEN Goto(t, "mode_apply_set") /\ UNCHANGED lv
       ELSE Goto(t, "mode_save") /\ lv' = [lv EXCEPT ![t].failed = TRUE]
    /\ UNCHANGED <<modeFrame, hookVars, storeVars, hist, stack>>

\* applyWebhook, setWebhook: the provider subscribes the production url.
ModeApplySet(t) ==
    /\ pc[t] = "mode_apply_set"
    /\ hookUrl' = IF apiDown THEN hookUrl ELSE "prod"
    /\ lv' = [lv EXCEPT ![t].failed = @ \/ apiDown]
    /\ Goto(t, "mode_save")
    /\ UNCHANGED <<modeFrame, hookErr, hookPending, storeVars, hist, stack>>

\* deleteWebhook, getBotToken; whatever deleteWebhook returns, start() is next.
ModeDeleteToken(t) ==
    /\ pc[t] = "mode_delete_token"
    /\ IF GetBotToken
       THEN Goto(t, "mode_delete_set") /\ UNCHANGED <<lv, stack>>
       ELSE /\ CallStart(t, <<"mode_started">>)
            /\ lv' = [lv EXCEPT ![t].failed = TRUE]
    /\ UNCHANGED <<modeFrame, hookVars, storeVars, hist>>

\* deleteWebhook: the provider drops the subscription; then start().
ModeDeleteSet(t) ==
    /\ pc[t] = "mode_delete_set"
    /\ hookUrl' = IF apiDown THEN hookUrl ELSE ""
    /\ lv' = [lv EXCEPT ![t].failed = @ \/ apiDown]
    /\ CallStart(t, <<"mode_started">>)
    /\ UNCHANGED <<modeFrame, hookErr, hookPending, storeVars, hist>>

\* After start(), whose result is not looked at either.
ModeStarted(t) ==
    /\ pc[t] = "mode_started"
    /\ lv' = [lv EXCEPT ![t].failed = @ \/ ~lv[t].ok, ![t].ok = FALSE,
                         ![t].rpid = 0]
    /\ Goto(t, "mode_save")
    /\ UNCHANGED <<modeFrame, hookVars, storeVars, hist, stack>>

\* A switch that persists the mode only when both legs succeeded.
ModeSaveIfClean(t) ==
    /\ pc[t] = "mode_save"
    /\ settings' = IF db = "up" /\ ~lv[t].failed
                   THEN [settings EXCEPT !["telegram_connection_mode"] = lv[t].target]
                   ELSE settings
    /\ ModeReturns(t, TRUE)
    /\ lv' = [lv EXCEPT ![t] = NoLocals]
    /\ UNCHANGED <<modeFrame, hookVars, botToken>>

\* setGatewaySetting('telegram_connection_mode', mode): the mode is persisted
\* whatever the legs did; the mutation fails when the database throws.
ModeSave(t) ==
    /\ pc[t] = "mode_save"
    /\ settings' = IF db = "up"
                   THEN [settings EXCEPT !["telegram_connection_mode"] = lv[t].target]
                   ELSE settings
    /\ ModeReturns(t, TRUE)
    /\ lv' = [lv EXCEPT ![t] = NoLocals]
    /\ UNCHANGED <<modeFrame, hookVars, botToken>>

ModeStep(t) ==
    \/ ModeApplyUrl(t) \/ ModeApplyToken(t) \/ ModeApplySet(t)
    \/ ModeDeleteToken(t) \/ ModeDeleteSet(t) \/ ModeStarted(t) \/ ModeSave(t)

\* ----------------------------------------------- webhookManager.applyWebhook
\* applyWebhook returns {success, message}; hist keeps the result, the item
\* that was found missing and whether the provider was called.
ApplyReturns(t, missing, called, success, message) ==
    /\ hist' = [hist EXCEPT !.applies = Append(@,
                   [op |-> lv[t].op, missing |-> missing, called |-> called,
                    result |-> [success |-> success, message |-> message]])]
    /\ Finish(t)

\* webhookManager.applyWebhook returns the result of applyWebhook().
ApiApplyWebhook(t) ==
    /\ Begin(t)
    /\ Goto(t, "apply_url")
    /\ UNCHANGED <<procVars, pidFile, nextPid, envVars, hookVars, storeVars,
                   logVars, compVars, hist, stack>>

\* applyWebhook, production_webhook_url, read without a default: absent or
\* empty, it is reported missing.
ApplyUrl(t) ==
    /\ pc[t] = "apply_url"
    /\ IF GetGatewaySetting("production_webhook_url", Absent) \in {Absent, ""}
       THEN ApplyReturns(t, "url", FALSE, FALSE,
                         "Production webhook URL not configured. Please set it first.")
       ELSE Goto(t, "apply_token") /\ UNCHANGED <<hist, stack, lv>>
    /\ UNCHANGED <<modeFrame, hookVars, storeVars>>

\* An applyWebhook that goes to the provider without a bot token.
ApplyTokenAnyway(t) ==
    /\ pc[t] = "apply_token"
    /\ Goto(t, "apply_set")
    /\ UNCHANGED <<modeFrame, hookVars, storeVars, hist, stack, lv>>

\* applyWebhook, getBotToken: without one, it is reported missing.
ApplyToken(t) ==
    /\ pc[t] = "apply_token"
    /\ IF GetBotToken
       THEN Goto(t, "apply_set") /\ UNCHANGED <<hist, stack, lv>>
       ELSE ApplyReturns(t, "token", FALSE, FALSE,
                         "Bot token not found in config. Please configure Telegram channel first.")
    /\ UNCHANGED <<modeFrame, hookVars, storeVars>>

\* applyWebhook, setWebhook: the provider subscribes the production url, or
\* the request fails.
ApplySet(t) ==
    /\ pc[t] = "apply_set"
    /\ hookUrl' = IF apiDown THEN hookUrl ELSE "prod"
    /\ IF apiDown
       THEN ApplyReturns(t, IF GetBotToken THEN "none" ELSE "token", TRUE,
                         FALSE, "Telegram API error")
       ELSE ApplyReturns(t, IF GetBotToken THEN "none" ELSE "token", TRUE,
                         TRUE, "Webhook applied successfully")
    /\ UNCHANGED <<modeFrame, hookErr, hookPending, storeVars>>

\* webhookManager.setProductionUrl: the operator stores the url.
ApiSetProductionUrl(url) ==
    /\ calls < MaxCalls
    /\ calls' = calls + 1
    /\ settings' = IF db = "up"
                   THEN [settings EXCEPT !["production_webhook_url"] = url]
                   ELSE settings
    /\ UNCHANGED <<procVars, pidFile, nextPid, envVars, hookVars, botToken,
                   logVars, pollerVars, metricsVars, nextHandle, ops, hist,
                   taskVars>>

\* ------------------------------------- WebhookPollerService.start and stop
\* start(): nothing when isRunning; else isRunning is set and the interval read.
PollerStart(t) ==
    /\ Free(t)
    /\ calls < MaxCalls
    /\ calls' = calls + 1
    /\ IF pollerRunning
       THEN UNCHANGED <<pollerRunning, pc>>
       ELSE pollerRunning' = TRUE /\ Goto(t, "poller_interval")
    /\ UNCHANGED <<procVars, pidFile, nextPid, envVars, hookVars, storeVars,
                   logVars, pollerInterval, pollerTimers, metricsVars,
                   nextHandle, ops, hist, stack, lv>>

\* webhook_check_interval is read, 300 s by default; the first cycle runs at
\* once and start() awaits it.
PollerFirst(t) ==
    /\ pc[t] = "poller_interval"
    /\ ops < MaxOps
    /\ ops' = ops + 1
    /\ settings' = Materialized("webhook_check_interval", "300")
    /\ lv' = [Disturbed EXCEPT ![t] = [NoLocals EXCEPT !.op = ops + 1]]
    /\ CallCycle(t, <<"poller_timer">>)
    /\ UNCHANGED <<procVars, pidFile, nextPid, envVars, hookVars, botToken,
                   logVars, compVars, hist>>

\* setInterval: the handle is kept in intervalId.
PollerTimer(t) ==
    /\ pc[t] = "poller_timer"
    /\ pollerInterval' = nextHandle
    /\ pollerTimers' = pollerTimers \cup {nextHandle}
    /\ nextHandle' = nextHandle + 1
    /\ Finish(t)
    /\ UNCHANGED <<procVars, pidFile, nextPid, envVars, hookVars, storeVars,
                   logVars, pollerRunning, metricsVars, calls, ops, hist>>

\* stop(): clearInterval(intervalId) when set; isRunning is reset.
PollerStop ==
    /\ calls < MaxCalls
    /\ calls' = calls + 1
    /\ pollerTimers' = pollerTimers \ {pollerInterval}
    /\ pollerInterval' = 0
    /\ pollerRunning' = FALSE
    /\ UNCHANGED <<procVars, pidFile, nextPid, envVars, hookVars, storeVars,
                   logVars, metricsVars, nextHandle, ops, hist, taskVars>>

\* A timer of the reconciler fires: its callback runs a cycle.
Tick(t) ==
    /\ pollerTimers # {}
    /\ Begin(t)
    /\ CallCycle(t, <<"tick_done">>)
    /\ UNCHANGED <<procVars, pidFile, nextPid, envVars, hookVars, storeVars,
                   logVars, compVars, hist>>

TickDone(t) ==
    /\ pc[t] = "tick_done"
    /\ Finish(t)
    /\ UNCHANGED <<procVars, pidFile, nextPid, envVars, hookVars, storeVars,
                   logVars, compVars, ops, hist>>

\* --------------------------------------------------- MetricsCollectorService
\* insertGatewayMonitor: the snapshot is written when the database answers.
InsertGatewayMonitor(row) ==
    monitors' = IF db = "up" THEN Append(monitors, row) ELSE monitors

\* collect() begins with getStatus(), which begins with getCurrentPid.
CallCollect(t) == CallStatus(t, <<"collect_insert">>)

\* start(): nothing when isRunning; else isRunning is set, collect() is called
\* without being awaited, and setInterval keeps its handle in intervalId.
MetricsStart(t) ==
    /\ calls < MaxCalls
    /\ calls' = calls + 1
    /\ IF metricsRunning
       THEN UNCHANGED <<metricsVars, nextHandle, ops, taskVars>>
       ELSE /\ Begin(t)
            /\ CallCollect(t)
            /\ metricsRunning' = TRUE
            /\ metricsInterval' = nextHandle
            /\ metricsTimers' = metricsTimers \cup {nextHandle}
            /\ nextHandle' = nextHandle + 1
    /\ UNCHANGED <<procVars, pidFile, nextPid, envVars, hookVars, storeVars,
                   logVars, pollerVars, hist>>

\* stop(): clearInterval(intervalId) when set; isRunning is reset.
MetricsStop ==
    /\ calls < MaxCalls
    /\ calls' = calls + 1
    /\ metricsTimers' = metricsTimers \ {metricsInterval}
    /\ metricsInterval' = 0
    /\ metricsRunning' = FALSE
    /\ UNCHANGED <<procVars, pidFile, nextPid, envVars, hookVars, storeVars,
                   logVars, pollerVars, nextHandle, ops, hist, taskVars>>

\* A timer of the collector fires: its callback calls collect().
MetricsTick(t) ==
    /\ metricsTimers # {}
    /\ Begin(t)
    /\ CallCollect(t)
    /\ UNCHANGED <<procVars, pidFile, nextPid, envVars, hookVars, storeVars,
                   logVars, compVars, hist>>

\* getStatus, after getCurrentPid: no pid, or a pid that is not running, is
\* 'stopped', and the stale pid file is cleared; else the metrics are read.
StatusCheck(t) ==
    /\ pc[t] = "status_check"
    /\ IF lv[t].cur = 0
       THEN Return(t) /\ UNCHANGED lv
       ELSE IF ~IsProcessRunning(lv[t].cur)
            THEN /\ Goto(t, "status_clear")
                 /\ lv' = [lv EXCEPT ![t].cur = 0]
                 /\ UNCHANGED stack
            ELSE Goto(t, "status_metrics") /\ UNCHANGED <<lv, stack>>
    /\ UNCHANGED <<procVars, pidFile, nextPid, supFrame>>

\* A getStatus that leaves the stale pid file.
StatusClearKept(t) ==
    /\ pc[t] = "status_clear"
    /\ Return(t)
    /\ UNCHANGED <<procVars, pidFile, nextPid, supFrame, lv>>

\* getStatus, clearPidFile.
StatusClear(t) ==
    /\ pc[t] = "status_clear"
    /\ pidFile' = 0
    /\ Return(t)
    /\ UNCHANGED <<procVars, nextPid, supFrame, lv>>

\* getStatus, getProcessMetrics: 'running' with the pid.
StatusMetrics(t) ==
    /\ pc[t] = "status_metrics"
    /\ Return(t)
    /\ UNCHANGED <<procVars, pidFile, nextPid, supFrame, lv>>

\* collect, insertGatewayMonitor of the status.
CollectInsert(t) ==
    /\ pc[t] = "collect_insert"
    /\ InsertGatewayMonitor([status |-> IF lv[t].cur = 0 THEN "stopped" ELSE "running",
                             pid |-> lv[t].cur, op |-> lv[t].op])
    /\ Finish(t)
    /\ Caught(t)
    /\ UNCHANGED <<procVars, pidFile, nextPid, envVars, hookVars, storeVars,
                   restartLogs, webhookLogs, compVars, ops>>

CollectStep(t) ==
    \/ StatusCheck(t) \/ StatusClear(t) \/ StatusMetrics(t) \/ CollectInsert(t)

\* ------------------------------------------------------------------- Init
\* restarts: the results restart() returned; cycleRestarts: the calls of restart()
\* by cycles; alerts: the alerts sent; dbFailed: the database failed to answer.
NoHist == [restarts |-> <<>>, cycleRestarts |-> 0, alerts |-> 0,
           dbFailed |-> FALSE, modes |-> <<>>, applies |-> <<>>,
           failed |-> {}, lost |-> 0]

SettingKeys == {"auto_restart_enabled", "health_check_timeout",
                "max_restart_attempts", "production_webhook_url",
                "telegram_connection_mode", "webhook_check_interval"}

\* The gateway runs and is recorded, or nothing runs.
InitProc ==
    \E running \in BOOLEAN :
        /\ alive = IF running THEN {1} ELSE {}
        /\ listener = IF running THEN 1 ELSE 0
        /\ pidFile = IF running THEN 1 ELSE 0
        /\ termed = {}
        /\ nextPid = 2

\* Everything works at first; `kinds` are the failures that can come.
InitEnv(kinds) ==
    /\ crashes = 0 /\ killDenied = FALSE /\ apiDown = FALSE /\ db = "up"
    /\ faults = kinds

InitLogs == restartLogs = <<>> /\ webhookLogs = <<>> /\ monitors = <<>>

\* The reconciler was started (one timer runs) or not; the collector was not.
InitComp(started) ==
    /\ pollerRunning = started
    /\ pollerInterval = IF started THEN 1 ELSE 0
    /\ pollerTimers = IF started THEN {1} ELSE {}
    /\ metricsRunning = FALSE /\ metricsInterval = 0 /\ metricsTimers = {}
    /\ nextHandle = 2
    /\ calls = 0

InitTasks ==
    /\ ops = 0
    /\ hist = NoHist
    /\ pc = [t \in Tasks |-> "idle"]
    /\ stack = [t \in Tasks |-> <<>>]
    /\ lv = [t \in Tasks |-> NoLocals]

Pids == 1..(MaxOps + 1)

\* The processes live their own life.
ProcStep == \E p \in Pids : Bind(p) \/ Exit(p) \/ Crash(p)

\* ------------------------------------------------ the supervisor on its own
\* Concurrent restart and start requests of the dashboard.
InitRace ==
    /\ InitProc /\ InitEnv({"spawn", "open", "timeout"}) /\ InitLogs
    /\ InitComp(FALSE) /\ InitTasks
    /\ hookUrl = "" /\ hookErr = FALSE /\ hookPending = 0
    /\ settings = [k \in SettingKeys |-> Absent]
    /\ botToken = TRUE

NextRace ==
    \/ \E t \in ApiTasks : ApiRestart(t) \/ ApiStart(t)
    \/ \E t \in ApiTasks : ApiRestartLog(t) \/ ApiReturn(t)
    \/ \E t \in ApiTasks : SupStep(t)
    \/ ProcStep

SpecRace == InitRace /\ [][NextRace]_vars

\* No call is in progress.
Quiet == \A t \in Tasks : pc[t] = "idle"

\* C7: once the restart() and start() calls have returned, at most one
\* supervised process is alive, and the pid file names the one that is.
C7_SingleInstance ==
    Quiet => /\ Cardinality(alive) <= 1
             /\ alive # {} => pidFile \in alive

\* ----------------------------------------------------- reconciliation cycles
\* The largest max_restart_attempts the settings start with.
MaxAttempts == 1

\* A started reconciler, the checkStatus and restart mutations of the
\* dashboard, and a database that can stop answering.

InitCycle ==
    /\ InitProc /\ InitEnv({"db"}) /\ InitLogs /\ InitComp(TRUE) /\ InitTasks
    /\ hookUrl = "" /\ hookErr = FALSE /\ hookPending = 0
    /\ \E auto \in {"true", "false"}, max \in 1..MaxAttempts :
         settings = [auto_restart_enabled |-> auto,
                     max_restart_attempts |-> Numerals[max],
                     production_webhook_url |-> "prod"]
                    @@ [k \in SettingKeys |-> Absent]
    /\ botToken = TRUE

NextCycle ==
    \/ ApiRestart("apiA") \/ ApiCheckStatus("apiA")
    \/ ApiRestartLog("apiA") \/ ApiReturn("apiA")
    \/ DbFails
    \/ \E t \in TickTasks : Tick(t) \/ TickDone(t)
    \/ \E t \in Tasks : CycleStep(t)
    \/ \E t \in Tasks : SupStep(t)
    \/ \E p \in Pids : Bind(p) \/ Exit(p)

SpecCycle == InitCycle /\ [][NextCycle]_vars

\* The limit of automatic restarts the settings hold.
MaxRestartAttempts == ParseInt(settings["max_restart_attempts"])

\* C1: with auto_restart_enabled = true and max_restart_attempts = N, the cycles
\* of one 5-minute window, overlapping or not, call restart() at most N times
\* (the database answering throughout).
C1_RateLimit ==
    (settings["auto_restart_enabled"] = "true" /\ ~hist.dbFailed)
        => hist.cycleRestarts <= MaxRestartAttempts

\* C8: no two cycles started by the reconciler's timer are in progress
\* together.
C8_Serialized ==
    ~(pc["tickA"] # "idle" /\ pc["tickB"] # "idle")

\* The rows of the restart log written for operation o.
RowsOf(o) == {i \in DOMAIN restartLogs : restartLogs[i].op = o}

AutoRows == {i \in DOMAIN restartLogs : restartLogs[i].triggerType = "webhook_check"}

\* C5: while auto_restart_enabled is false no cycle calls restart(), writes a
\* restart row, alerts the owner or touches the provider subscription; the only
\* rows cycles write are checks with actionTaken none.
C5_Override ==
    settings["auto_restart_enabled"] = "false"
        => /\ hist.cycleRestarts = 0
           /\ hist.alerts = 0
           /\ AutoRows = {}
           /\ hookUrl = ""
           /\ \A i \in DOMAIN webhookLogs : webhookLogs[i].actionTaken = "none"

\* restart() of operation o has returned and its caller is past the insert.
Logged(o) ==
    \A t \in Tasks :
        lv[t].op = o => pc[t] \notin {"cycle_restarted", "api_restart_log"}

InitMode ==
    /\ InitEnv({"kill", "api"}) /\ InitLogs /\ InitComp(TRUE) /\ InitTasks
    /\ termed = {} /\ nextPid = 2
    /\ hookErr = FALSE /\ hookPending = 0
    /\ botToken = TRUE
    /\ \E mode \in Modes :
         /\ alive = IF mode = "gateway" THEN {1} ELSE {}
         /\ listener = IF mode = "gateway" THEN 1 ELSE 0
         /\ pidFile = IF mode = "gateway" THEN 1 ELSE 0
         /\ hookUrl = IF mode = "gateway" THEN "" ELSE "prod"
         /\ settings = [telegram_connection_mode |-> mode,
                        production_webhook_url |-> "prod",
                        auto_restart_enabled |-> "true",
                        max_restart_attempts |-> Numerals[MaxAttempts]]
                       @@ [k \in SettingKeys |-> Absent]

NextMode ==
    \/ \E t \in ApiTasks, mode \in Modes : ApiSetMode(t, mode)
    \/ \E t \in ApiTasks : ModeStep(t)
    \/ Tick("tickA") \/ TickDone("tickA")
    \/ CycleStep("tickA")
    \/ \E t \in ApiTasks \cup {"tickA"} : SupStep(t)
    \/ KillDenial \/ ApiOutage
    \/ \E p \in Pids : Bind(p) \/ Exit(p)

SpecMode == InitMode /\ [][NextMode]_vars

\* C2: a setConnectionMode that changed the mode to 'webhook' returns with no
\* supervised process running, and one that changed it to 'gateway' returns
\* with no subscription url at the provider, whatever its legs did.
C2_ExclusiveOnReturn ==
    \A k \in DOMAIN hist.modes :
        LET m == hist.modes[k] IN
        m.changed => /\ m.target = "webhook" => ~m.running
                     /\ m.target = "gateway" => m.url = ""

\* No setConnectionMode is in progress.
NoSetMode == \A t \in ApiTasks : lv[t].target = ""

\* The mode was switched, and every setConnectionMode so far ran undisturbed
\* with none of its legs failing.
CleanSwitches ==
    /\ \E k \in DOMAIN hist.modes : hist.modes[k].changed
    /\ \A k \in DOMAIN hist.modes : hist.modes[k].alone /\ ~hist.modes[k].failed

\* C3: after completed mode switches and with none in progress, no cycle of
\* the reconciler brings about a running process together with a subscription
\* url at the provider.
C3_StaysExclusive ==
    (NoSetMode /\ CleanSwitches) => ~(alive # {} /\ hookUrl # "")

\* The state setConnectionMode(target) is to leave: process stopped and webhook
\* applied, or webhook deleted and process started.
ConsistentFor(m) ==
    IF m.target = "webhook"
    THEN ~m.running /\ m.url = "prod"
    ELSE m.running /\ m.url = ""

\* C4: a setConnectionMode(target) that follows one with the same target and a
\* failed leg, and that meets no failure itself, leaves the state consistent
\* with target.
C4_Recoverable ==
    \A k \in DOMAIN hist.modes :
        (/\ k > 1
         /\ hist.modes[k - 1].failed
         /\ hist.modes[k - 1].target = hist.modes[k].target
         /\ hist.modes[k].alone) => ConsistentFor(hist.modes[k])

\* ------------------------------------------------- starting and stopping
\* start() and stop() calls on the reconciler and the collector, and their
\* timers.
InitTimer ==
    /\ InitProc /\ InitEnv({}) /\ InitLogs /\ InitComp(FALSE) /\ InitTasks
    /\ hookUrl = "" /\ hookErr = FALSE /\ hookPending = 0
    /\ settings = [auto_restart_enabled |-> "true",
                   max_restart_attempts |-> Numerals[MaxAttempts],
                   production_webhook_url |-> "prod"]
                  @@ [k \in SettingKeys |-> Absent]
    /\ botToken = TRUE

NextTimer ==
    \/ \E t \in BootTasks : PollerStart(t) \/ PollerFirst(t) \/ PollerTimer(t)
    \/ PollerStop
    \/ MetricsStart("collA") \/ MetricsStop
    \/ MetricsTick("collA")
    \/ CollectStep("collA")
    \/ Tick("tickA") \/ TickDone("tickA")
    \/ \E t \in BootTasks \cup {"tickA"} : CycleStep(t)
    \/ \E t \in BootTasks \cup {"tickA", "collA"} : SupStep(t)
    \/ \E p \in Pids : Bind(p) \/ Exit(p) \/ Crash(p)

SpecTimer == InitTimer /\ [][NextTimer]_vars

\* A timer callback of the reconciler, of the collector, begins its work.
CycleBegins == pc["tickA"] = "idle" /\ pc'["tickA"] # "idle"
CollectBegins ==
    /\ pc["collA"] = "idle" /\ pc'["collA"] # "idle"
    /\ metricsTimers' = metricsTimers

\* C9: a timer-driven cycle begins only while its component is started: none
\* between a stop() and the next start(), whenever stop() was called.
C9_StoppedIsQuiet ==
    [][/\ CycleBegins => pollerRunning
       /\ CollectBegins => metricsRunning]_vars

\* C10: whatever start() and stop() calls were made, each component has at
\* most one recurring timer.
C10_OneTimer ==
    /\ Cardinality(pollerTimers) <= 1
    /\ Cardinality(metricsTimers) <= 1


\* --------------------------------------------------------- a flapping webhook
\* The cycles of one 5-minute window that the timer runs one after the other.
MaxCycles == 4

\* A started reconciler whose cycles do not overlap, auto-restart enabled with
\* max_restart_attempts = 3 and no restart logged yet; the gateway may fail to
\* open its port.
InitFlap ==
    /\ InitProc /\ InitEnv({"timeout"}) /\ InitLogs /\ InitComp(TRUE)
    /\ InitTasks
    /\ hookUrl = "" /\ hookErr \in BOOLEAN /\ hookPending \in {0, 1}
    /\ settings = [auto_restart_enabled |-> "true",
                   max_restart_attempts |-> Numerals[3],
                   production_webhook_url |-> "prod"]
                  @@ [k \in SettingKeys |-> Absent]
    /\ botToken = TRUE

FlapTick(t) ==
    /\ pollerTimers # {}
    /\ BeginWithin(t, MaxCycles)
    /\ CallCycle(t, <<"tick_done">>)
    /\ UNCHANGED <<procVars, pidFile, nextPid, envVars, hookVars, storeVars,
                   logVars, compVars, hist>>

NextFlap ==
    \/ FlapTick("tickA") \/ TickDone("tickA")
    \/ CycleStep("tickA")
    \/ GcpRead("tickA") \/ GcpPgrep("tickA")
    \/ StopKill("tickA") \/ StopGone("tickA") \/ StopForce("tickA")
    \/ StopClear("tickA")
    \/ StartCheck("tickA") \/ StartSpawn("tickA") \/ StartSave("tickA")
    \/ StartProbe("tickA") \/ StartPort("tickA") \/ StartFailed("tickA")
    \/ RestartOld("tickA") \/ RestartStopped("tickA")
    \/ RestartStarted("tickA") \/ HealthAlive("tickA") \/ HealthPort("tickA")
    \/ \E p \in 1..(MaxCycles + 1) : Bind(p) \/ Exit(p)

SpecFlap == InitFlap /\ [][NextFlap]_vars

ActionsTaken == [i \in 1..Len(webhookLogs) |-> webhookLogs[i].actionTaken]

\* Four cycles have run, each found the webhook inactive and every restart
\* succeeded.
Flapped ==
    /\ ops = 4 /\ Quiet
    /\ \A i \in 1..Len(webhookLogs) : ~webhookLogs[i].isActive
    /\ \A i \in 1..Len(hist.restarts) : hist.restarts[i].success

\* C11: with max_restart_attempts = 3 and an empty restart history, four
\* consecutive cycles that find the webhook inactive, every restart succeeding,
\* leave WebhookCheckRecords whose actionTaken are exactly restart, restart,
\* restart, alert, and exactly 3 RestartRecords, all of triggerType
\* webhook_check.
C11_FlapRecords ==
    Flapped =>
        /\ ActionsTaken = <<"restart", "restart", "restart", "alert">>
        /\ Len(restartLogs) = 3
        /\ \A i \in 1..Len(restartLogs) :
               restartLogs[i].triggerType = "webhook_check"

\* The WebhookCheckRecords that operation o appended.
ChecksOf(o) == {i \in 1..Len(webhookLogs) : webhookLogs[i].op = o}

\* C12: every cycle that has run appended exactly one WebhookCheckRecord,
\* whichever branch it took.
C12_OneCheckRecord ==
    Quiet => \A o \in 1..ops : Cardinality(ChecksOf(o)) = 1

\* ------------------------------------------- the supervisor's single calls
\* stop, start and getStatus requests of the dashboard, one at a time, while
\* the process may crash or fail to open its port, the pid file may be removed,
\* and signals may be denied.
InitOps ==
    /\ InitProc /\ InitEnv({"kill", "pidfile", "timeout"}) /\ InitLogs
    /\ InitComp(FALSE) /\ InitTasks
    /\ hookUrl = "" /\ hookErr = FALSE /\ hookPending = 0
    /\ settings = [k \in SettingKeys |-> Absent]
    /\ botToken = TRUE

NextOps ==
    \/ ApiStop("apiA") \/ ApiStart("apiA") \/ ApiGetStatus("apiA")
    \/ ApiReturn("apiA")
    \/ GcpRead("apiA") \/ GcpPgrep("apiA") \/ GcpSave("apiA")
    \/ StopKill("apiA") \/ StopGone("apiA") \/ StopForce("apiA")
    \/ StopClear("apiA")
    \/ StartCheck("apiA") \/ StartSpawn("apiA") \/ StartSave("apiA")
    \/ StartProbe("apiA") \/ StartPort("apiA") \/ StartFailed("apiA")
    \/ StatusCheck("apiA") \/ StatusClear("apiA") \/ StatusMetrics("apiA")
    \/ ProcStep
    \/ KillDenial \/ PidFileLost

SpecOps == InitOps /\ [][NextOps]_vars

\* A stop() request that runs by itself, and one that has returned.
StopAlone(t) ==
    /\ lv[t].solo
    /\ Len(stack[t]) > 0
    /\ stack[t][Len(stack[t])] = "api_stopped"

StopReturned(t) == lv[t].solo /\ pc[t] = "api_stopped"

\* When the request was made no pid was recorded, or the recorded pid
\* belonged to no live process.
NoLiveRecord(t) == lv[t].pre = 0 \/ lv[t].pre \notin lv[t].live

\* C13: stop() called when no pid is recorded, or when the recorded pid belongs
\* to no live process, returns success, leaves no pid recorded, and sends no
\* signal to a live process.
C13_IdempotentStop ==
    /\ [](\A t \in ApiTasks :
            (StopReturned(t) /\ NoLiveRecord(t)) => lv[t].ok /\ pidFile = 0)
    /\ [][\A t \in ApiTasks :
            (StopAlone(t) /\ NoLiveRecord(t) /\ pc'[t] # pc[t])
                => termed' \subseteq termed /\ alive' = alive]_vars

\* C13, amended: stop() called when no gateway process is alive, a pid being
\* recorded or not, returns success and leaves no pid recorded and no process:
\* the state in which a further stop() does the same.
C13_StopOnNothing ==
    \A t \in ApiTasks :
        (StopReturned(t) /\ lv[t].live = {})
            => lv[t].ok /\ pidFile = 0 /\ alive = {} /\ termed = {}

\* A stop() has returned that found the pid of a process that had died.
C13_Witness ==
    \E t \in ApiTasks :
        StopReturned(t) /\ lv[t].live = {} /\ lv[t].pre # 0

\* ------------------------------------------------------- restart's result
\* Restart requests of the dashboard, one at a time, while the pid file may be
\* removed, signals may be denied and the gateway may fail to open its port.
InitRestart ==
    /\ InitProc /\ InitEnv({"kill", "pidfile", "timeout"}) /\ InitLogs
    /\ InitComp(FALSE) /\ InitTasks
    /\ hookUrl = "" /\ hookErr = FALSE /\ hookPending = 0
    /\ settings = [k \in SettingKeys |-> Absent]
    /\ botToken = TRUE

NextRestart ==
    \/ ApiRestart("apiA") \/ ApiRestartLog("apiA")
    \/ SupStep("apiA")
    \/ KillDenial \/ PidFileLost
    \/ \E p \in Pids : Bind(p) \/ Exit(p)

SpecRestart == InitRestart /\ [][NextRestart]_vars

LastRestart == hist.restarts[Len(hist.restarts)]

\* Task t, in restart, takes the step that follows a stop() that failed.
StopFailedIn(t) ==
    pc[t] = "restart_stopped" /\ ~lv[t].ok /\ pc'[t] # pc[t]

\* C14: when the stop() of a restart() reports failure, restart() returns at
\* once, to its caller and without calling start(), a result with success =
\* false and newPid = null whose message names the stop phase; and only such
\* a result names the stop phase.
C14_NoStartOnFailedStop ==
    /\ [](\A i \in 1..Len(hist.restarts) :
            hist.restarts[i].message = "Failed to stop old process"
                => ~hist.restarts[i].success /\ hist.restarts[i].newPid = 0)
    /\ [][\A t \in Tasks :
            StopFailedIn(t) =>
                /\ pc'[t] = Head(stack[t])
                /\ Len(hist'.restarts) = Len(hist.restarts) + 1
                /\ LastRestart'.message = "Failed to stop old process"
                /\ ~LastRestart'.success /\ LastRestart'.newPid = 0
                /\ nextPid' = nextPid /\ alive' = alive]_vars

\* A restart() has returned whose stop() had failed, the process it could not
\* stop being alive.
C14_Witness ==
    /\ hist.restarts # <<>>
    /\ LastRestart.message = "Failed to stop old process"
    /\ LastRestart.oldPid \in alive

\* ------------------------------------------------------ getStatus's result
\* A getStatus() request that ran by itself has returned: lv[t].cur is the pid
\* it reports, 0 with status stopped.
StatusReturned(t) == lv[t].solo /\ pc[t] = "api_status"

\* C15: when getStatus() is called with no pid recorded while one gateway
\* process is alive, and that process stays alive, getStatus() reports running
\* with its pid and the pid is recorded again.
C15_SelfHeals ==
    \A t \in ApiTasks : \A p \in Pids :
        (StatusReturned(t) /\ lv[t].pre = 0 /\ lv[t].live = {p} /\ p \in alive)
            => lv[t].cur = p /\ pidFile = p

\* Task t, in getStatus, takes the step after which it reports running.
ReportsRunning(t) ==
    /\ pc[t] = "status_check" /\ pc'[t] = "status_metrics"
    /\ stack[t] = <<"api_status">>

\* C16: getStatus() called with a recorded pid that belongs to no live process
\* clears the pid record and returns stopped with no pid; and it reports
\* running only with a pid that its signal probe found alive.
C16_StaleRecordCleared ==
    /\ [](\A t \in ApiTasks :
            (StatusReturned(t) /\ lv[t].pre # 0 /\ lv[t].pre \notin lv[t].live)
                => lv[t].cur = 0 /\ pidFile = 0)
    /\ [][\A t \in ApiTasks :
            ReportsRunning(t) => lv[t].cur # 0 /\ IsProcessRunning(lv[t].cur)
        ]_vars

\* A getStatus() has returned that found the pid of a process that had died.
C16_Witness ==
    \E t \in ApiTasks :
        StatusReturned(t) /\ lv[t].pre # 0 /\ lv[t].pre \notin lv[t].live

\* ---------------------------------------------------------- start's result
\* Task t, in a start() that has spawned a child, takes the step by which
\* start() returns success = false.
StartGivesUp(t) == lv[t].child # 0 /\ lv'[t].child = 0 /\ ~lv'[t].ok

\* C17: when a start() that has spawned a process returns success = false, the
\* spawned process is not alive and the pid file does not record it.
C17_NoOrphan ==
    [][\A t \in Tasks :
         StartGivesUp(t) =>
             lv[t].child \notin alive' /\ pidFile' # lv[t].child]_vars

\* Task t, in start(), has read the recorded pid of a live process and takes
\* the step that follows the check for a running gateway.
StartOnLive(t) ==
    /\ pc[t] = "start_check" /\ pc'[t] # pc[t]
    /\ lv[t].cur # 0 /\ lv[t].cur = pidFile /\ lv[t].cur \in alive

\* C18: start() that finds a live process recorded spawns nothing: it returns
\* success = false with the pid of that process, and the processes and the
\* pid file are as they were.
C18_StartOnLiveIsNoop ==
    [][\A t \in Tasks :
         StartOnLive(t) =>
             /\ pc'[t] = Head(stack[t])
             /\ ~lv'[t].ok /\ lv'[t].rpid = lv[t].cur
             /\ UNCHANGED <<alive, termed, listener, pidFile, nextPid>>]_vars

\* ----------------------------------------------- the order of a mode switch
PersistedMode == settings["telegram_connection_mode"]

\* Task t moves to the await point `entry`.
Enters(t, entry) == pc[t] # entry /\ pc'[t] = entry

\* Task t takes a step by which its stop() returns; by which the deleteWebhook()
\* of its switch returns and start() is called.
StopReturns(t) ==
    /\ pc[t] \in {"stop_kill", "stop_wait", "stop_clear"}
    /\ pc'[t] = Head(stack[t])

StartsAfterDelete(t) ==
    /\ pc[t] \in {"mode_delete_token", "mode_delete_set"}
    /\ pc'[t] = "gcp_read" /\ Head(stack'[t]) = "start_check"

\* Task t is in the start() of a switch.
StartingForMode(t) ==
    /\ Len(stack[t]) > 0 /\ stack[t][Len(stack[t])] = "mode_started"
    /\ \E i \in 1..Len(stack[t]) : stack[t][i] = "start_check"

\* Switches requested one at a time, while signals may be denied and the
\* provider API may be out of reach.
NextSwitch ==
    \/ \E mode \in Modes : ApiSetMode("apiA", mode)
    \/ ModeStep("apiA")
    \/ GcpRead("apiA") \/ GcpPgrep("apiA") \/ GcpSave("apiA")
    \/ StopKill("apiA") \/ StopGone("apiA") \/ StopForce("apiA")
    \/ StopClear("apiA")
    \/ StartCheck("apiA") \/ StartSpawn("apiA") \/ StartSave("apiA")
    \/ StartProbe("apiA") \/ StartPort("apiA") \/ StartFailed("apiA")
    \/ KillDenial \/ ApiOutage
    \/ \E p \in Pids : Bind(p) \/ Exit(p)

SpecSwitch == InitMode /\ [][NextSwitch]_vars

\* C19: in a switch to webhook, applyWebhook() is called when stop() has
\* returned; in a switch to gateway, start() is called when deleteWebhook() has
\* returned; the new mode is persisted only once both legs have been attempted,
\* and it is persisted whether or not a leg failed.
C19_SwitchOrder ==
    [][\A t \in ApiTasks :
         /\ Enters(t, "mode_apply_url") => StopReturns(t)
         /\ (~StartingForMode(t) /\ StartingForMode(t)') => StartsAfterDelete(t)
         /\ Enters(t, "mode_save") =>
                pc[t] \in {"mode_apply_url", "mode_apply_token",
                           "mode_apply_set", "mode_started"}
         /\ (pc[t] = "mode_save" /\ pc'[t] # pc[t]) =>
                PersistedMode' = lv[t].target
         /\ (PersistedMode # Absent /\ PersistedMode' # PersistedMode) =>
                \E u \in ApiTasks : pc[u] = "mode_save" /\ pc'[u] = "idle"
      ]_vars

\* A switch whose leg failed has returned, and the mode it was given is
\* persisted.
C19_Witness ==
    /\ hist.modes # <<>>
    /\ LET m == hist.modes[Len(hist.modes)]
       IN  m.changed /\ m.failed /\ PersistedMode = m.target

\* C20: the results of two switches to the same mode differ when the legs of
\* one all succeeded and a leg of the other failed.
C20_ResultTellsLegs ==
    \A i, j \in 1..Len(hist.modes) :
        LET m == hist.modes[i]
            n == hist.modes[j]
        IN  (m.changed /\ n.changed /\ m.target = n.target
                /\ m.failed /\ ~n.failed)
                => m.result # n.result

\* ------------------------------------------------------ an unchanged mode
\* This step is the call of setConnectionMode(mode) by task t.
SetModeCalled(t, mode) ==
    /\ pc[t] = "idle" /\ ops' = ops + 1
    /\ \/ lv'[t].target = mode
       \/ /\ Len(hist'.modes) = Len(hist.modes) + 1
          /\ hist'.modes[Len(hist'.modes)].target = mode

\* C21: setConnectionMode(mode) with mode equal to the persisted mode calls
\* none of stop(), start(), applyWebhook(), deleteWebhook(): it returns at once
\* with success, and the process, the pid file, the subscription and the
\* persisted mode are as they were.
C21_SameModeIsNoop ==
    [][\A t \in ApiTasks : \A mode \in Modes :
         (SetModeCalled(t, mode) /\ PersistedMode = mode) =>
             /\ pc'[t] = "idle" /\ stack'[t] = <<>>
             /\ Len(hist'.modes) = Len(hist.modes) + 1
             /\ hist'.modes[Len(hist'.modes)].result.success
             /\ ~hist'.modes[Len(hist'.modes)].changed
             /\ UNCHANGED <<procVars, pidFile, nextPid, hookVars, settings>>
      ]_vars

\* setConnectionMode has returned 'Mode unchanged' while the gateway ran.
C21_Witness ==
    /\ hist.modes # <<>>
    /\ LET m == hist.modes[Len(hist.modes)]
       IN  ~m.changed /\ m.target = PersistedMode /\ m.running

\* ------------------------------------------------------- the activity test
\* Task t has the answer of getWebhookInfo and has judged it.
Judged(t) == pc[t] = "cycle_log" /\ ~apiDown /\ GetBotToken

\* C22: the cycle judges the subscription the provider reports active exactly
\* when its url is not empty and no last error is recorded or nothing is
\* pending; an empty url is inactive, and so is a url with an error recorded
\* and updates pending.
C22_ActivityTest ==
    \A t \in TickTasks :
        Judged(t) =>
            /\ lv[t].active <=> (hookUrl # "" /\ (~hookErr \/ hookPending = 0))
            /\ hookUrl = "" => ~lv[t].active
            /\ (hookUrl # "" /\ hookErr /\ hookPending > 0) => ~lv[t].active
            /\ (hookUrl # "" /\ ~hookErr /\ hookPending > 0) => lv[t].active
            /\ (hookUrl # "" /\ hookErr /\ hookPending = 0) => lv[t].active

\* A subscription with a recorded error and nothing pending was judged active.
C22_Witness ==
    \E t \in TickTasks :
        Judged(t) /\ lv[t].active /\ hookErr /\ hookPending = 0

\* ------------------------------------------------- applying the subscription
\* applyWebhook requests of the dashboard, with a production url and a bot
\* token that are configured or not, an operator who stores the url, and a
\* provider API that may be out of reach.
InitApply ==
    /\ InitProc /\ InitEnv({"api"}) /\ InitLogs /\ InitComp(FALSE) /\ InitTasks
    /\ hookUrl \in {"", "prod"} /\ hookErr = FALSE /\ hookPending = 0
    /\ \E url \in {Absent, "", "prod"} :
         settings = [production_webhook_url |-> url]
                    @@ [k \in SettingKeys |-> Absent]
    /\ botToken \in BOOLEAN

NextApply ==
    \/ \E t \in ApiTasks : ApiApplyWebhook(t)
    \/ \E t \in ApiTasks : ApplyUrl(t) \/ ApplyToken(t) \/ ApplySet(t)
    \/ \E url \in {"", "prod"} : ApiSetProductionUrl(url)
    \/ ApiOutage

SpecApply == InitApply /\ [][NextApply]_vars

\* Task t takes a step of applyWebhook that finds the url or the token unset.
FindsUnset(t) ==
    \/ /\ pc[t] = "apply_url"
       /\ settings["production_webhook_url"] \in {Absent, ""}
    \/ pc[t] = "apply_token" /\ ~botToken

\* C23: applyWebhook() that finds the production url absent or empty, or the
\* bot token unset, returns at once success = false with the message that
\* names the missing item, and the provider is not called: the subscription is
\* as it was.
C23_CleanFailure ==
    /\ [](\A i \in 1..Len(hist.applies) :
            LET r == hist.applies[i]
            IN  /\ r.missing = "url" =>
                      r.result = [success |-> FALSE, message |->
                                    "Production webhook URL not configured. Please set it first."]
                /\ r.missing = "token" =>
                      r.result = [success |-> FALSE, message |->
                                    "Bot token not found in config. Please configure Telegram channel first."]
                /\ r.missing # "none" => ~r.called)
    /\ [][\A t \in ApiTasks :
            (FindsUnset(t) /\ pc'[t] # pc[t]) =>
                /\ pc'[t] = "idle"
                /\ Len(hist'.applies) = Len(hist.applies) + 1
                /\ hist'.applies[Len(hist'.applies)].missing # "none"
                /\ UNCHANGED hookVars]_vars

\* Two applyWebhook() calls have found the bot token unset, one after the
\* other.
C23_Witness ==
    /\ Len(hist.applies) >= 2
    /\ \A i \in 1..2 : hist.applies[i].missing = "token"

\* ------------------------------------------------------- cycles that fail
\* Both components are started, each with its timer; the webhook is
\* subscribed or not, the bot token configured or not; the database can stop
\* answering, the provider API can be out of reach and the gateway can fail
\* to bind its port in time, so that cycles fail in every way.
InitLoop ==
    /\ InitProc /\ InitEnv({"db", "api", "timeout"}) /\ InitLogs /\ InitTasks
    /\ pollerRunning = TRUE /\ pollerInterval = 1 /\ pollerTimers = {1}
    /\ metricsRunning = TRUE /\ metricsInterval = 2 /\ metricsTimers = {2}
    /\ nextHandle = 3 /\ calls = 0
    /\ hookUrl \in {"", "prod"} /\ hookErr = FALSE /\ hookPending = 0
    /\ settings = [auto_restart_enabled |-> "true",
                   max_restart_attempts |-> Numerals[MaxAttempts],
                   production_webhook_url |-> "prod"]
                  @@ [k \in SettingKeys |-> Absent]
    /\ botToken \in BOOLEAN

NextLoop ==
    \/ Tick("tickA") \/ TickDone("tickA")
    \/ MetricsTick("collA")
    \/ CollectStep("collA")
    \/ CycleStep("tickA")
    \/ SupStep("tickA") \/ SupStep("collA")
    \/ DbFails \/ ApiOutage
    \/ \E p \in Pids : Bind(p) \/ Exit(p)

SpecLoop == InitLoop /\ [][NextLoop]_vars

\* The callback of timer-driven task t is over.
CallbackOver(t) == pc[t] # "idle" /\ pc'[t] = "idle"

\* C24: no cycle stops a timer, whether it fails or not: the timer of the
\* reconciler and the timer of the collector stay set through every step of a
\* cycle, every callback ends by returning, and once it is over the next tick
\* can begin a new cycle.
C24_TimerSurvives ==
    /\ [](pollerTimers = {pollerInterval} /\ metricsTimers = {metricsInterval})
    /\ [][\A t \in {"tickA", "collA"} :
            CallbackOver(t) => /\ stack'[t] = <<>>
                               /\ UNCHANGED <<pollerVars, metricsVars>>]_vars
    /\ []((pc["tickA"] = "idle" /\ ops < MaxOps) => ENABLED Tick("tickA"))
    /\ []((pc["collA"] = "idle" /\ ops < MaxOps) => ENABLED MetricsTick("collA"))

\* A cycle failed on the database, and a later tick has begun a new cycle of
\* the reconciler.
C24_Witness ==
    /\ \E o \in hist.failed : o < lv["tickA"].op
    /\ pc["tickA"] = "cycle_log"
    /\ pollerTimers # {}

\* ------------------------------------------------ the records of one cycle
\* The cycle of task t appends a WebhookCheckRecord with actionTaken restart.
LogsRestart(t) ==
    /\ pc[t] = "cycle_restart_log"
    /\ Len(webhookLogs') = Len(webhookLogs) + 1
    /\ webhookLogs'[Len(webhookLogs')].actionTaken = "restart"

\* The RestartRecords the cycle of operation o appended, with this outcome.
CycleRecords(o, success) ==
    {i \in DOMAIN restartLogs :
        /\ restartLogs[i].op = o
        /\ restartLogs[i].triggerType = "webhook_check"
        /\ restartLogs[i].success = success}

\* The cycle of task t learns that restart() failed.
RestartFailedIn(t) == pc[t] = "cycle_restarted" /\ ~lv[t].ok /\ pc'[t] # pc[t]

\* After a failed restart() the cycle appends the RestartRecord of the failure
\* and is over: no second restart(), no resetWebhook(), no record with
\* actionTaken restart.
FailedRestartEnds ==
    /\ [][\A t \in TickTasks :
            RestartFailedIn(t) =>
                /\ pc'[t] = "tick_done"
                /\ db = "up" => /\ Len(restartLogs') = Len(restartLogs) + 1
                                /\ ~restartLogs'[Len(restartLogs')].success
                /\ UNCHANGED <<hookVars, webhookLogs, procVars>>
                /\ hist'.cycleRestarts = hist.cycleRestarts
                /\ lv'[t].reset = "uncalled"]_vars
    /\ [](\A i \in DOMAIN webhookLogs :
            webhookLogs[i].actionTaken = "restart" =>
                CycleRecords(webhookLogs[i].op, FALSE) = {})

\* C25 as stated: a record with actionTaken restart is appended only after the
\* RestartRecord of a successful restart of the same cycle and after the
\* production url was subscribed again; a failed restart() ends the cycle.
C25_Bookkeeping ==
    /\ [][\A t \in TickTasks :
            LogsRestart(t) => /\ CycleRecords(lv[t].op, TRUE) # {}
                              /\ lv[t].reset = "applied"]_vars
    /\ FailedRestartEnds

\* C25: a record with actionTaken restart is appended only after the
\* RestartRecord of a successful restart of the same cycle and after
\* resetWebhook() has returned, whether it subscribed the production url,
\* found no url or token to subscribe, or failed at the provider; a failed
\* restart() ends the cycle.
C25_BookkeepingOrder ==
    /\ [][\A t \in TickTasks :
            LogsRestart(t) => /\ CycleRecords(lv[t].op, TRUE) # {}
                              /\ lv[t].reset # "uncalled"]_vars
    /\ FailedRestartEnds

\* A cycle has logged its restart, with the RestartRecord of its success,
\* after a resetWebhook() that failed at the provider.
C25_Witness ==
    \E t \in TickTasks :
        /\ pc[t] = "tick_done"
        /\ lv[t].reset = "failed"
        /\ CycleRecords(lv[t].op, TRUE) # {}
        /\ \E i \in DOMAIN webhookLogs :
             /\ webhookLogs[i].actionTaken = "restart"
             /\ webhookLogs[i].op = lv[t].op

\* ------------------------------------------------------ the circuit breaker
\* A started reconciler whose cycles find the webhook inactive, the restart
\* mutation of the dashboard, a database that answers and a gateway that can
\* fail to bind its port in time.
InitAlert ==
    /\ InitProc /\ InitEnv({"timeout"}) /\ InitLogs /\ InitComp(TRUE)
    /\ InitTasks
    /\ hookUrl = "" /\ hookErr = FALSE /\ hookPending = 0
    /\ settings = [auto_restart_enabled |-> "true",
                   max_restart_attempts |-> Numerals[MaxAttempts],
                   production_webhook_url |-> "prod"]
                  @@ [k \in SettingKeys |-> Absent]
    /\ botToken = TRUE

NextAlert ==
    \/ ApiRestart("apiA") \/ ApiRestartLog("apiA")
    \/ Tick("tickA") \/ TickDone("tickA")
    \/ CycleStep("tickA")
    \/ SupStep("tickA") \/ SupStep("apiA")
    \/ \E p \in Pids : Bind(p) \/ Exit(p)

SpecAlert == InitAlert /\ [][NextAlert]_vars

\* The reconciler alone, with a notifier that can fail, a gateway that can
\* fail to bind its port in time and a PID_FILE that can be removed.
InitNotify ==
    /\ InitProc /\ InitEnv({"notify", "timeout", "pidfile"}) /\ InitLogs
    /\ InitComp(TRUE) /\ InitTasks
    /\ hookUrl = "" /\ hookErr = FALSE /\ hookPending = 0
    /\ settings = [auto_restart_enabled |-> "true",
                   max_restart_attempts |-> Numerals[MaxAttempts],
                   production_webhook_url |-> "prod"]
                  @@ [k \in SettingKeys |-> Absent]
    /\ botToken = TRUE

NextNotify ==
    \/ Tick("tickA") \/ TickDone("tickA")
    \/ CycleStep("tickA")
    \/ SupStep("tickA")
    \/ PidFileLost
    \/ \E p \in Pids : Bind(p) \/ Exit(p)

SpecNotify == InitNotify /\ [][NextNotify]_vars

\* The cycle of task t, which found the webhook inactive and auto-restart
\* enabled, compares a count at or above the limit with the limit.
AtLimit(t) ==
    /\ pc[t] = "cycle_max" /\ pc'[t] # pc[t]
    /\ lv[t].recent >= MaxRestartAttempts

\* The cycle of task t leaves the alert branch.
Alerted(t) == pc[t] = "cycle_alert" /\ pc'[t] # pc[t]

\* C26: a cycle that finds the webhook inactive, auto-restart enabled and the
\* count of recent restarts at or above max_restart_attempts calls no
\* restart(), and appends a record with actionTaken alert whether the
\* notification was delivered or not.
C26_AlertInsteadOfRestart ==
    [][\A t \in TickTasks :
        /\ AtLimit(t) => /\ pc'[t] = "cycle_alert"
                         /\ hist'.cycleRestarts = hist.cycleRestarts
                         /\ UNCHANGED <<procVars, pidFile>>
        /\ Alerted(t) => /\ Len(webhookLogs') = Len(webhookLogs) + 1
                         /\ webhookLogs'[Len(webhookLogs')].actionTaken = "alert"
                         /\ webhookLogs'[Len(webhookLogs')].op = lv[t].op
                         /\ pc'[t] = "tick_done"
                         /\ hist'.cycleRestarts = hist.cycleRestarts
                         /\ UNCHANGED <<procVars, pidFile, restartLogs>>]_vars

\* An alert whose notification was lost is in the log.
C26_Witness ==
    /\ hist.lost > 0
    /\ \E i \in DOMAIN webhookLogs : webhookLogs[i].actionTaken = "alert"

\* ------------------------------------------------ initializeGatewaySettings
\* The Settings Store holds what the operator has set, or nothing, for each
\* key; initializeGatewaySettings runs, any number of times, and the database
\* can stop answering.
InitDefaults ==
    /\ InitProc /\ InitEnv({"db"}) /\ InitLogs /\ InitComp(FALSE) /\ InitTasks
    /\ hookUrl = "" /\ hookErr = FALSE /\ hookPending = 0
    /\ \E url \in {Absent, "", "prod"}, auto \in {Absent, "true", "false"},
          mode \in {Absent, "webhook", "gateway"} :
         settings = [production_webhook_url |-> url,
                     auto_restart_enabled |-> auto,
                     telegram_connection_mode |-> mode]
                    @@ [k \in SettingKeys |-> Absent]
    /\ botToken = TRUE

NextDefaults == InitializeGatewaySettings \/ DbFails

SpecDefaults == InitDefaults /\ [][NextDefaults]_vars

\* C27: initializeGatewaySettings leaves every key that holds a value as it
\* is, so that running it again changes nothing.
C27_KeepsValues ==
    [][calls' = calls + 1 =>
          \A k \in SettingKeys :
              settings[k] # Absent => settings'[k] = settings[k]]_vars

\* The RestartRecords of the window that are manual, or of a failed restart.
ForeignRecords ==
    {i \in DOMAIN restartLogs :
        /\ restartLogs[i].recent
        /\ restartLogs[i].triggerType = "manual" \/ ~restartLogs[i].success}

\* The cycle of task t counts the recent restarts.
Counts(t) == pc[t] = "cycle_count" /\ pc'[t] # pc[t]

\* C28: the count of a cycle takes every RestartRecord of the window, manual
\* or automatic, successful or failed; with max_restart_attempts manual or
\* failed restarts recorded the cycle counts the limit, and a cycle that has
\* counted the limit raises the alert and restarts nothing.
C28_CountsEveryRecord ==
    [][\A t \in TickTasks :
        /\ Counts(t) =>
              /\ lv'[t].recent = Cardinality({i \in DOMAIN restartLogs :
                                                 restartLogs[i].recent})
              /\ Cardinality(ForeignRecords) >= MaxRestartAttempts =>
                    lv'[t].recent >= MaxRestartAttempts
        /\ AtLimit(t) => /\ pc'[t] = "cycle_alert"
                         /\ hist'.cycleRestarts = hist.cycleRestarts
                         /\ UNCHANGED procVars]_vars

\* A cycle is in its alert branch although the reconciler has restarted
\* nothing: the records it counted are manual.
C28_Witness ==
    /\ hist.cycleRestarts = 0
    /\ \E t \in TickTasks : pc[t] = "cycle_alert"
    /\ \A i \in DOMAIN restartLogs : restartLogs[i].triggerType = "manual"

\* ------------------------------------------- a History Sink out of reach
\* A started reconciler whose cycles find the webhook inactive. There is no
\* database connection at all (getDb() returns null: db = "none"), or there
\* is one and its statements can begin to throw; the gateway can fail to bind
\* its port in time, and PID_FILE can be removed.
InitOpen ==
    /\ InitProc /\ InitLogs /\ InitComp(TRUE) /\ InitTasks
    /\ crashes = 0 /\ killDenied = FALSE /\ apiDown = FALSE
    /\ db \in {"up", "none"}
    /\ faults = {"db", "timeout", "pidfile"}
    /\ hookUrl = "" /\ hookErr = FALSE /\ hookPending = 0
    /\ settings = [auto_restart_enabled |-> "true",
                   max_restart_attempts |-> Numerals[MaxAttempts],
                   production_webhook_url |-> "prod"]
                  @@ [k \in SettingKeys |-> Absent]
    /\ botToken = TRUE

NextOpen ==
    \/ Tick("tickA") \/ TickDone("tickA")
    \/ CycleStep("tickA")
    \/ SupStep("tickA")
    \/ DbFails \/ PidFileLost
    \/ \E p \in Pids : Bind(p) \/ Exit(p)

SpecOpen == InitOpen /\ [][NextOpen]_vars

\* The cycle of task t, having found the webhook inactive, logs its check.
LogsInactive(t) == pc[t] = "cycle_log" /\ pc'[t] # pc[t] /\ ~lv[t].active

\* The cycle of task t reads auto_restart_enabled.
ReadsAuto(t) == pc[t] = "cycle_auto" /\ pc'[t] # pc[t]

\* The cycle of task t compares a count of 0 with the limit.
AtZero(t) == pc[t] = "cycle_max" /\ pc'[t] # pc[t] /\ lv[t].recent = 0

\* Without an answer of the database the count a cycle reads is 0, and a
\* cycle that has read 0 calls restart().
CountOfNothing ==
    [][\A t \in TickTasks :
        /\ (db # "up" /\ ReadsAuto(t)) => pc'[t] = "cycle_count"
        /\ (db # "up" /\ Counts(t)) => lv'[t].recent = 0
        /\ AtZero(t) => /\ pc'[t] = "gcp_read"
                        /\ Head(stack'[t]) = "restart_old"
                        /\ hist'.cycleRestarts = hist.cycleRestarts + 1]_vars

\* C29 as stated: while the History Sink is out of reach, inserts skipped or
\* statements failing, every cycle that finds the webhook inactive goes on to
\* count 0 restarts and to call restart().
C29_FailsOpen ==
    /\ [][\A t \in TickTasks :
            (db # "up" /\ LogsInactive(t)) => pc'[t] = "cycle_auto"]_vars
    /\ CountOfNothing

\* C29: with no database connection, inserts are skipped: every cycle that
\* finds the webhook inactive counts 0 restarts and calls restart(), and none
\* alerts. With a database whose statements throw, a cycle that has logged its
\* check counts 0 and calls restart(), and a cycle that has yet to log its
\* check ends there, with neither restart nor alert.
C29_FailsOpenUnconnected ==
    /\ [][\A t \in TickTasks :
            /\ (db = "none" /\ LogsInactive(t)) => pc'[t] = "cycle_auto"
            /\ (db = "error" /\ LogsInactive(t)) =>
                  /\ pc'[t] = "tick_done"
                  /\ hist'.cycleRestarts = hist.cycleRestarts
                  /\ hist'.alerts = hist.alerts
                  /\ UNCHANGED <<procVars, pidFile>>]_vars
    /\ [](db = "none" =>
            /\ hist.alerts = 0
            /\ \A t \in TickTasks : pc[t] # "cycle_alert"
            /\ pc["tickA"] \in {"idle", "tick_done"} =>
                  hist.cycleRestarts = ops)
    /\ CountOfNothing

\* With no database connection, more cycles than max_restart_attempts have
\* called restart(), and none has alerted.
C29_Witness ==
    /\ db = "none"
    /\ hist.cycleRestarts > MaxRestartAttempts
    /\ hist.alerts = 0
    /\ pc["tickA"] = "tick_done"

\* ------------------------------------------- a provider that cannot be asked
\* The cycle of task t has no status of the provider: the bot token is
\* missing, or the request failed.
Blind(t) == lv[t].info \in {"no_token", "failed"}

\* C30: a cycle that cannot query the provider, for want of a bot token or
\* because the request fails, holds isActive = false; it logs isActive = false
\* with a null url and goes on in the inactive branch, where, auto-restart
\* enabled and the count below the limit, it calls restart().
C30_BlindIsInactive ==
    /\ [](\A t \in TickTasks : Blind(t) => ~lv[t].active /\ lv[t].url = "")
    /\ [][\A t \in TickTasks :
            /\ (pc[t] = "cycle_token" /\ pc'[t] # pc[t] /\ ~GetBotToken) =>
                  Blind(t)' /\ pc'[t] = "cycle_log"
            /\ (pc[t] = "cycle_fetch" /\ pc'[t] # pc[t] /\ apiDown) =>
                  Blind(t)' /\ pc'[t] = "cycle_log"
            /\ (Blind(t) /\ LogsInactive(t) /\ db = "up") =>
                  /\ pc'[t] = "cycle_auto"
                  /\ Len(webhookLogs') = Len(webhookLogs) + 1
                  /\ ~webhookLogs'[Len(webhookLogs')].isActive
                  /\ webhookLogs'[Len(webhookLogs')].webhookUrl = "null"
            /\ (Blind(t) /\ pc[t] = "cycle_max" /\ pc'[t] # pc[t]
                  /\ lv[t].recent < MaxRestartAttempts) =>
                  /\ pc'[t] = "gcp_read"
                  /\ Head(stack'[t]) = "restart_old"
                  /\ hist'.cycleRestarts = hist.cycleRestarts + 1]_vars

\* The webhook is subscribed and has no error, and a cycle that could not
\* query the provider has restarted the gateway.
C30_Witness ==
    /\ hookUrl = "prod" /\ ~hookErr
    /\ \E t \in TickTasks :
         /\ Blind(t)
         /\ pc[t] = "cycle_restarted"
         /\ lv[t].ok

====
